---- MODULE Spec2Model ----
(***************************************************************************)
(* DataProviderManager (src/data/provider_manager.py) together with the    *)
(* ProviderAwareCache (src/data/enhanced_cache.py) it writes through to.   *)
(* Time is the wall clock read by datetime.now(), in seconds.  A manager   *)
(* call is followed from the cache lookup through every provider attempt   *)
(* to its return value or the DataProviderError it raises.                 *)
(***************************************************************************)
EXTENDS Integers, Sequences, FiniteSets, TLC

VARIABLES
    now,              \* datetime.now(), seconds since the manager was built
    api_key,          \* FinancialDatasetsProvider.api_key is set
    provider_health,  \* DataProviderManager.provider_health
    cache,            \* ProviderAwareCache._cache
    pc,               \* position of the manager call in progress
    request,          \* the (data_type, func_name, args) of the call
    stale_data,       \* local of _execute_with_fallback
    available,        \* local available_providers (names, in order)
    idx,              \* position of the for loop in available_providers
    last_error,       \* local last_error
    result,           \* local result: what the provider call returned
    invoked,          \* providers whose func was called by this call, in order
    ret,              \* what the call returned or raised
    consecutive_failures, \* failures recorded per provider since its last
                          \* recorded success (observer of _record_*)
    cache_op,         \* the call made on the cache itself, and its outcome
    peer,             \* the locals of a second thread's manager call while
                      \* that thread waits for the interpreter lock
    api_result,       \* what a function of tools/api.py hands to its caller
    mirror,           \* DataProvider._is_healthy and _last_error of the
                      \* providers whose mirror is observed (no code of
                      \* the manager's fallback path reads a mirror)
    datareader,       \* PANDAS_DATAREADER_AVAILABLE of stooq_provider.py
    loaded,           \* the counter value an unfinished += has read, for
                      \* the running thread and for the waiting one
    warm,             \* warm_cache: its tickers and its place in its loop
    http              \* FinancialDatasetsProvider._make_request: its loop,
                      \* the provider's own health flag, and its outcome

vars == <<now, api_key, provider_health, cache, pc, request, stale_data,
          available, idx, last_error, result, invoked, ret,
          consecutive_failures, cache_op, peer, api_result, mirror,
          datareader, loaded, warm, http>>

(* ------------------------------ bounds --------------------------------- *)

\* the clock advances in steps of TickStep seconds: MaxTicksDeep times when
\* only search_line_items is called (so that a cooldown can elapse), MaxTicks
\* times otherwise (enough for a stored entry to become Stale)
TickStep == 240
MaxTicks == 1
MaxTicksDeep == 2
\* no new call starts once the providers have answered this many attempts:
\* MaxRequests when calls of every data type are made, MaxPriceRequests when
\* only get_prices is called, MaxLineItemRequests when only
\* search_line_items is called
MaxRequests == 2
MaxPriceRequests == 8
MaxLineItemRequests == 8
\* MaxLifecycleRequests when records are opened, closed and reset
MaxLifecycleRequests == 8
\* MaxAgeingRequests when entries are followed past their TTL
MaxAgeingRequests == 4
\* MaxMakeRequests calls of FinancialDatasetsProvider._make_request
MaxMakeRequests == 2
\* MaxFairRequests when termination of get_prices calls is checked
MaxFairRequests == 3
\* MaxConcurrentRequests when two threads call get_prices
MaxConcurrentRequests == 2

\* provider attempts on record when two threads update a health record
MaxHealthRequests == 1

\* tickers in the list warm_cache is given, and provider attempts on
\* record up to which warm_cache starts a manager call
MaxTickers == 2
MaxWarmRequests == 2

\* provider attempts made while cache calls may raise
MaxFaultRequests == 3

\* provider attempts made while the mirrors are observed
MaxMirrorRequests == 3

\* provider attempts on record while providers are reset, and the failures
\* on record for a provider up to which it is still reset
MaxResetRequests == 3
MaxObservedFailures == 3

\* keyword arguments of one cache call, and names in one line-item list
MaxKwargs == 2
MaxLineItems == 2

\* direct cache calls read the clock this many seconds before and after the
\* instants at which an entry changes its state
ClockResolution == 1

(* ------------------------- program constants --------------------------- *)

None == -1

ProviderNames == {"yahoo", "stooq", "financialdatasets", "sec_edgar"}

failure_threshold == 3
circuit_timeout == 300
success_threshold == 2

provider_priorities ==
    [prices            |-> <<"yahoo", "stooq", "financialdatasets">>,
     financial_metrics |-> <<"yahoo", "financialdatasets">>,
     company_news      |-> <<"financialdatasets">>,
     insider_trades    |-> <<"financialdatasets">>,
     line_items        |-> <<"sec_edgar", "financialdatasets">>,
     company_facts     |-> <<"yahoo", "sec_edgar", "financialdatasets">>,
     market_cap        |-> <<"yahoo", "financialdatasets">>]

DataTypes == DOMAIN provider_priorities

_ttl_config ==
    [prices            |-> 300,
     financial_metrics |-> 3600,
     company_news      |-> 1800,
     insider_trades    |-> 7200,
     line_items        |-> 3600,
     company_facts     |-> 86400,
     market_cap        |-> 1800]

_provider_scores(provider) ==
    CASE provider = "yahoo" -> 10
      [] provider = "stooq" -> 8
      [] provider = "financialdatasets" -> 9
      [] OTHER -> 0

\* results a provider can hand back: an empty sequence / null, or data
Payloads == {"empty", "data"}

\* the exceptions a provider call can end with
ErrorKinds == {"RateLimit", "NotFound", "Timeout", "Error"}

(* --------------------------- capability -------------------------------- *)

YahooSupports == {"prices", "financial_metrics", "company_facts", "market_cap"}
StooqSupports == {"prices"}
SecEdgarSupports == {"insider_trades", "line_items", "company_facts"}

supports_feature(provider, feature) ==
    CASE provider = "yahoo" -> feature \in YahooSupports
      [] provider = "stooq" -> feature \in StooqSupports
      [] provider = "sec_edgar" -> feature \in SecEdgarSupports
      [] provider = "financialdatasets" -> api_key /\ feature \in DataTypes

(* ------------------------------ requests ------------------------------- *)

\* line item names, numbered in alphabetical order
LineItemNames == {1, 2, 3}

\* the list as the caller wrote it
LineItemsAsPassed(items) == items

\* tuple(sorted(line_items)): a stable sort that keeps repeated names
SortedLineItems(items) ==
    LET n == Len(items)
        Position(i) ==
            Cardinality({j \in 1..n : \/ items[j] < items[i]
                                      \/ items[j] = items[i] /\ j < i}) + 1
    IN  [k \in 1..n |-> items[CHOOSE i \in 1..n : Position(i) = k]]

\* the seven public operations, each with one argument tuple
Requests ==
    { [data_type |-> "prices", func_name |-> "get_prices",
       args |-> <<"AAPL", "2024-01-01", "2024-01-31">>],
      [data_type |-> "financial_metrics", func_name |-> "get_financial_metrics",
       args |-> <<"AAPL", "2024-01-31", "ttm", "10">>],
      [data_type |-> "company_news", func_name |-> "get_company_news",
       args |-> <<"AAPL", "2024-01-31", "null", "1000">>],
      [data_type |-> "insider_trades", func_name |-> "get_insider_trades",
       args |-> <<"AAPL", "2024-01-31", "null", "1000">>],
      [data_type |-> "line_items", func_name |-> "search_line_items",
       args |-> <<"AAPL", <<2, 1>>, "2024-01-31", "ttm", "10">>],
      [data_type |-> "company_facts", func_name |-> "get_company_facts",
       args |-> <<"AAPL">>],
      [data_type |-> "market_cap", func_name |-> "get_market_cap",
       args |-> <<"AAPL", "2024-01-31">>] }

PriceRequests == {req \in Requests : req.func_name = "get_prices"}

LineItemRequests == {req \in Requests : req.func_name = "search_line_items"}

NoRequest == [data_type |-> "none", func_name |-> "none", args |-> <<>>]

(* ------------------------------- cache --------------------------------- *)

\* the keyword names a cache call may use, in alphabetical order
KeywordNames == <<"end_date", "limit", "period", "start_date">>

KeywordRank(name) == CHOOSE i \in DOMAIN KeywordNames : KeywordNames[i] = name

\* kwargs.items() in the order in which the call wrote the keywords
KwargsAsPassed(kwargs) == kwargs

\* sorted(kwargs.items()): the (name, value) pairs of the dict by name; a
\* dict holds a name once, so values are never compared
SortedKwargs(kwargs) ==
    LET n == Len(kwargs)
        Position(i) ==
            Cardinality({j \in 1..n : KeywordRank(kwargs[j][1])
                                        < KeywordRank(kwargs[i][1])}) + 1
    IN  [k \in 1..n |-> kwargs[CHOOSE i \in 1..n : Position(i) = k]]

\* the key of a call with keyword arguments: key_data holds data_type, args
\* and the sorted kwargs; its JSON text and the MD5 digest of that text are
\* functions of these three, taken as free of collisions
_generate_cache_key_kwargs(data_type, args, kwargs) ==
    <<data_type, args, SortedKwargs(kwargs)>>

\* the key of a call with positional arguments only
_generate_cache_key(data_type, args) ==
    _generate_cache_key_kwargs(data_type, args, <<>>)

\* the key ProviderAwareCache.search_line_items_cached looks up
search_line_items_cached(ticker, line_items, end_date, period, limit) ==
    _generate_cache_key("line_items",
        <<ticker, SortedLineItems(line_items), end_date, period, limit>>)

\* the key ProviderAwareCache.set_line_items stores under
set_line_items(ticker, line_items, end_date, period, limit) ==
    _generate_cache_key("line_items",
        <<ticker, SortedLineItems(line_items), end_date, period, limit>>)

\* the key the cache getter named by cache_method_map looks up
CacheGetKey(req) ==
    IF req.func_name = "search_line_items"
    THEN search_line_items_cached(req.args[1], req.args[2], req.args[3],
                                  req.args[4], req.args[5])
    ELSE _generate_cache_key(req.data_type, req.args)

\* the key the cache setter is handed by _execute_with_fallback: for line
\* items cache_setter(*args[:3], args[4], args[3], ...)
CacheSetKey(req) ==
    IF req.func_name = "search_line_items"
    THEN set_line_items(req.args[1], req.args[2], req.args[3],
                        req.args[5], req.args[4])
    ELSE _generate_cache_key(req.data_type, req.args)

age(entry, t) == t - entry.timestamp

\* a status whose first comparison includes the boundary
status_inclusive(entry, t) ==
    IF age(entry, t) * 10 <= entry.ttl_seconds * 8 THEN "fresh"
    ELSE IF age(entry, t) < entry.ttl_seconds THEN "stale"
    ELSE "expired"

status(entry, t) ==
    IF age(entry, t) * 10 < entry.ttl_seconds * 8 THEN "fresh"
    ELSE IF age(entry, t) < entry.ttl_seconds THEN "stale"
    ELSE "expired"

is_valid(entry, t) == status(entry, t) # "expired"

\* ProviderAwareCache.get: the value returned (None for a miss)
CacheGetResult(c, key, t) ==
    IF key \notin DOMAIN c THEN <<>>
    ELSE IF ~is_valid(c[key], t) THEN <<>>
    ELSE <<c[key].data, c[key].provider, status(c[key], t)>>

\* a lookup that evicts whatever entry it reads
CacheAfterGetEvicting(c, key, t) ==
    [k \in DOMAIN c \ {key} |-> c[k]]

\* ProviderAwareCache.get: the cache it leaves behind
CacheAfterGet(c, key, t) ==
    IF key \in DOMAIN c /\ ~is_valid(c[key], t)
    THEN [k \in DOMAIN c \ {key} |-> c[k]]
    ELSE c

\* a store that only writes when the key has no entry
CacheAfterSetIfMissing(c, key, data_type, data, provider, t) ==
    IF key \in DOMAIN c THEN c
    ELSE [k \in DOMAIN c \cup {key} |->
            IF k = key
            THEN [data |-> data, provider |-> provider, timestamp |-> t,
                  cache_key |-> key, data_type |-> data_type,
                  ttl_seconds |-> _ttl_config[data_type]]
            ELSE c[k]]

\* a store that always writes
CacheAfterSetAlways(c, key, data_type, data, provider, t) ==
    [k \in DOMAIN c \cup {key} |->
        IF k = key
        THEN [data |-> data, provider |-> provider, timestamp |-> t,
              cache_key |-> key, data_type |-> data_type,
              ttl_seconds |-> _ttl_config[data_type]]
        ELSE c[k]]

\* a store that compares the scores whatever the state of the entry
CacheAfterSetRanked(c, key, data_type, data, provider, t) ==
    IF /\ key \in DOMAIN c
       /\ _provider_scores(provider) <= _provider_scores(c[key].provider)
    THEN c
    ELSE CacheAfterSetAlways(c, key, data_type, data, provider, t)

\* ProviderAwareCache.set
CacheAfterSet(c, key, data_type, data, provider, t) ==
    IF /\ key \in DOMAIN c
       /\ status(c[key], t) = "fresh"
       /\ _provider_scores(provider) <= _provider_scores(c[key].provider)
    THEN c
    ELSE [k \in DOMAIN c \cup {key} |->
            IF k = key
            THEN [data |-> data, provider |-> provider, timestamp |-> t,
                  cache_key |-> key, data_type |-> data_type,
                  ttl_seconds |-> _ttl_config[data_type]]
            ELSE c[k]]

(* --------------------------- circuit breaker --------------------------- *)

ProviderHealth ==
    [is_healthy |-> TRUE, failure_count |-> 0, last_failure_time |-> None,
     circuit_open_until |-> None, total_requests |-> 0,
     successful_requests |-> 0]

\* the comparison with the clock turned round
_is_circuit_open_inverted(health, t) ==
    health.circuit_open_until # None /\ t > health.circuit_open_until

_is_circuit_open(health, t) ==
    health.circuit_open_until # None /\ t < health.circuit_open_until


\* opening the breaker leaves the record healthy
_open_circuit_still_healthy(health, t) ==
    [health EXCEPT !.circuit_open_until = t + circuit_timeout]

_open_circuit(health, t) ==
    [health EXCEPT !.circuit_open_until = t + circuit_timeout,
                   !.is_healthy = FALSE]

\* closing the breaker keeps the failures on record
_close_circuit_keeping_failures(health) ==
    [health EXCEPT !.circuit_open_until = None,
                   !.is_healthy = TRUE]

_close_circuit(health) ==
    [health EXCEPT !.circuit_open_until = None,
                   !.failure_count = 0,
                   !.is_healthy = TRUE]

_record_success(health) ==
    LET h == [health EXCEPT !.total_requests = @ + 1,
                            !.successful_requests = @ + 1]
        consecutive_successes ==
            h.successful_requests - (h.total_requests - h.successful_requests)
    IN  IF h.circuit_open_until # None
           /\ consecutive_successes >= success_threshold
        THEN _close_circuit(h)
        ELSE h

_record_failure(health, t) ==
    LET h == [health EXCEPT !.total_requests = @ + 1,
                            !.failure_count = @ + 1,
                            !.last_failure_time = t]
    IN  IF h.failure_count >= failure_threshold /\ h.circuit_open_until = None
        THEN _open_circuit(h, t)
        ELSE h

Reverse(s) == [i \in 1..Len(s) |-> s[Len(s) + 1 - i]]

\* a candidate list built from the lowest priority upwards
_get_available_providers_reversed(data_type, health, t) ==
    IF data_type \notin DataTypes THEN <<>>
    ELSE SelectSeq(Reverse(provider_priorities[data_type]),
                   LAMBDA name : /\ ~_is_circuit_open(health[name], t)
                                 /\ supports_feature(name, data_type))

\* a candidate list built without the capability query
_get_available_providers_unfiltered(data_type, health, t) ==
    IF data_type \notin DataTypes THEN <<>>
    ELSE SelectSeq(provider_priorities[data_type],
                   LAMBDA name : ~_is_circuit_open(health[name], t))

\* a candidate list that leaves out the providers whose own mirror is
\* unhealthy
_get_available_providers_healthy(data_type, health, t) ==
    IF data_type \notin DataTypes THEN <<>>
    ELSE SelectSeq(provider_priorities[data_type],
                   LAMBDA name : /\ ~_is_circuit_open(health[name], t)
                                 /\ supports_feature(name, data_type)
                                 /\ name \in DOMAIN mirror
                                       => mirror[name].is_healthy)

\* the names _get_available_providers returns, in priority order
_get_available_providers(data_type, health, t) ==
    IF data_type \notin DataTypes THEN <<>>
    ELSE SelectSeq(provider_priorities[data_type],
                   LAMBDA name : /\ ~_is_circuit_open(health[name], t)
                                 /\ supports_feature(name, data_type))

(* ------------------------------- calls --------------------------------- *)

NoReturn == [kind |-> "none"]
Returned(pair) == [kind |-> "return", data |-> pair[1], provider |-> pair[2]]
Raised(message, err) ==
    [kind |-> "raise", error |-> "DataProviderError", message |-> message,
     last_error |-> err]

NoError == [kind |-> "none", provider |-> "none"]

NoResult == "none"

\* no call has been made on the cache itself
NoCacheOp == [op |-> "none"]

\* no function of tools/api.py is returning
NoApiResult == [outcome |-> "none"]

\* DataProvider.mark_unhealthy and DataProvider.mark_healthy
mark_unhealthy(error) == [is_healthy |-> FALSE, last_error |-> error]

mark_healthy == [is_healthy |-> TRUE, last_error |-> NoError]

\* the providers whose methods call mark_healthy before they return a result
MarksItselfHealthy == {"yahoo", "stooq", "financialdatasets"}

\* the mirrors after a method of provider_name has returned a result
MirrorAfterReturn(m, provider_name) ==
    IF provider_name \in DOMAIN m \cap MarksItselfHealthy
    THEN [m EXCEPT ![provider_name] = mark_healthy]
    ELSE m

\* the mirrors after _record_failure(provider_name, error): whatever the
\* provider wrote before it raised, the manager's mark_unhealthy(error) is
\* the last write
MirrorAfterFailure(m, provider_name, error) ==
    IF provider_name \in DOMAIN m
    THEN [m EXCEPT ![provider_name] = mark_unhealthy(error)]
    ELSE m

\* FinancialDatasetsProvider after construction: _make_request is not
\* running, no attempt has been made, the provider is healthy
NoHttpRequest ==
    [stage |-> "idle", attempt |-> 0, responses |-> <<>>, slept |-> 0,
     health |-> mark_healthy, outcome |-> NoReturn, calls |-> 0]

\* neither thread is inside a +=
NoneLoaded == [mine |-> 0, peers |-> 0]

\* warm_cache is not running
NotWarming == [tickers |-> <<>>, i |-> 0, stage |-> "none", attempted |-> {}]

\* the locals of a thread that is not inside a manager call
NoCall ==
    [pc |-> "idle", request |-> NoRequest, stale_data |-> <<>>,
     available |-> <<>>, idx |-> 0, last_error |-> NoError,
     result |-> NoResult, invoked |-> <<>>, ret |-> NoReturn]

\* the manager and its cache after construction
InitManager ==
    /\ now = 0
    /\ api_key \in BOOLEAN
    /\ provider_health = [name \in ProviderNames |-> ProviderHealth]
    /\ cache = <<>>
    /\ pc = "idle"
    /\ request = NoRequest
    /\ stale_data = <<>>
    /\ available = <<>>
    /\ idx = 0
    /\ last_error = NoError
    /\ result = NoResult
    /\ invoked = <<>>
    /\ ret = NoReturn
    /\ consecutive_failures = [name \in ProviderNames |-> 0]
    /\ cache_op = NoCacheOp
    /\ peer = NoCall
    /\ api_result = NoApiResult
    /\ loaded = NoneLoaded
    /\ warm = NotWarming
    /\ http = NoHttpRequest

\* no mirror is observed; pandas-datareader is installed
Init ==
    /\ InitManager
    /\ datareader = TRUE
    /\ mirror = <<>>

\* every mirror is observed, with or without pandas-datareader: without it
\* StooqProvider.__init__ marks the provider unhealthy
InitMirrors ==
    /\ InitManager
    /\ datareader \in BOOLEAN
    /\ mirror =
         [name \in ProviderNames |->
            IF name = "stooq" /\ ~datareader
            THEN mark_unhealthy([kind |-> "ImportError", provider |-> name])
            ELSE mark_healthy]

\* the provider can answer at all: without pandas-datareader
\* StooqProvider.get_prices raises DataProviderError at once
Responds(provider_name) == provider_name = "stooq" => datareader

\* an empty candidate list that always raises
NoProvidersRaising(stale) ==
    Raised("No available providers", NoError)

\* the candidate list is empty: the stale entry, or the error
NoProviders(stale) ==
    IF stale # <<>> THEN Returned(stale)
    ELSE Raised("No available providers", NoError)

TotalAttempts ==
    LET names == <<"yahoo", "stooq", "financialdatasets", "sec_edgar">>
    IN  provider_health[names[1]].total_requests
        + provider_health[names[2]].total_requests
        + provider_health[names[3]].total_requests
        + provider_health[names[4]].total_requests

\* _execute_with_fallback up to the first provider attempt: cache lookup,
\* candidate list, and the early returns
Call(req, budget) ==
    /\ pc = "idle"
    /\ TotalAttempts < budget
    /\ LET key == CacheGetKey(req)
           cache_result == CacheGetResult(cache, key, now)
           stale == IF cache_result # <<>> /\ cache_result[3] # "fresh"
                    THEN <<cache_result[1], cache_result[2]>>
                    ELSE <<>>
           candidates ==
               _get_available_providers(req.data_type, provider_health, now)
       IN  /\ cache' = CacheAfterGet(cache, key, now)
           /\ request' = req
           /\ invoked' = <<>>
           /\ last_error' = NoError
           /\ result' = NoResult
           /\ IF cache_result # <<>> /\ cache_result[3] = "fresh"
              THEN /\ ret' = Returned(<<cache_result[1], cache_result[2]>>)
                   /\ pc' = "done"
                   /\ stale_data' = <<>>
                   /\ available' = <<>>
                   /\ idx' = 0
              ELSE /\ stale_data' = stale
                   /\ available' = candidates
                   /\ IF candidates = <<>>
                      THEN /\ pc' = "done"
                           /\ idx' = 0
                           /\ ret' = NoProviders(stale)
                      ELSE /\ pc' = "try"
                           /\ idx' = 1
                           /\ ret' = NoReturn
    /\ UNCHANGED <<now, api_key, provider_health, consecutive_failures>>
    /\ UNCHANGED <<cache_op, peer, api_result, datareader, loaded, warm, http>>
    /\ UNCHANGED mirror

\* exhaustion that ignores the stale entry
AfterLoopRaising(err) ==
    Raised("All providers failed", err)

\* exhaustion that reports the error of the candidate before the last
AfterLoopEarlierError(err) ==
    IF stale_data # <<>> THEN Returned(stale_data)
    ELSE Raised("All providers failed", last_error)

\* the code after the for loop, reached when the last candidate has failed
AfterLoop(err) ==
    IF stale_data # <<>> THEN Returned(stale_data)
    ELSE Raised("All providers failed", err)


\* a failed candidate is tried once more before the loop moves on
ContinueRetryingOnce(err) ==
    /\ last_error' = err
    /\ IF \A i \in DOMAIN invoked : invoked[i] # available[idx]
       THEN idx' = idx /\ pc' = "try" /\ ret' = NoReturn
       ELSE /\ idx' = idx + 1
            /\ IF idx + 1 > Len(available)
               THEN pc' = "done" /\ ret' = AfterLoop(err)
               ELSE pc' = "try" /\ ret' = NoReturn

\* the loop moves on to the next candidate, or ends
Continue(err) ==
    /\ last_error' = err
    /\ idx' = idx + 1
    /\ IF idx + 1 > Len(available)
       THEN pc' = "done" /\ ret' = AfterLoop(err)
       ELSE pc' = "try" /\ ret' = NoReturn

\* the provider call returns a result
ProviderReturns(data) ==
    /\ pc = "try"
    /\ Responds(available[idx])
    /\ LET provider_name == available[idx]
       IN  /\ invoked' = Append(invoked, provider_name)
           /\ cache' = CacheAfterSet(cache, CacheSetKey(request),
                                     request.data_type, data,
                                     provider_name, now)
           /\ provider_health' =
                [provider_health EXCEPT
                    ![provider_name] = _record_success(@)]
           /\ consecutive_failures' =
                [consecutive_failures EXCEPT ![provider_name] = 0]
           /\ result' = data
           /\ ret' = Returned(<<data, provider_name>>)
           /\ pc' = "done"
    /\ UNCHANGED <<now, api_key, request, stale_data, available, idx,
                   last_error>>
    /\ UNCHANGED <<cache_op, peer, api_result, datareader, loaded, warm, http>>
    /\ mirror' = MirrorAfterReturn(mirror, available[idx])

\* the provider call raises DataProviderRateLimitError
ProviderRateLimited ==
    /\ pc = "try"
    /\ Responds(available[idx])
    /\ LET provider_name == available[idx]
       IN  /\ invoked' = Append(invoked, provider_name)
           /\ provider_health' =
                [provider_health EXCEPT
                    ![provider_name] = _record_failure(@, now)]
           /\ consecutive_failures' =
                [consecutive_failures EXCEPT ![provider_name] = @ + 1]
           /\ Continue([kind |-> "RateLimit", provider |-> provider_name])
    /\ UNCHANGED <<now, api_key, cache, request, stale_data, available,
                   result>>
    /\ UNCHANGED <<cache_op, peer, api_result, datareader, loaded, warm, http>>
    /\ mirror' = MirrorAfterFailure(mirror, available[idx], last_error')

\* an exception that leaves the manager as it was raised
ProviderFailsPropagating(kind) ==
    /\ pc = "try"
    /\ LET provider_name == available[idx]
       IN  /\ invoked' = Append(invoked, provider_name)
           /\ last_error' = [kind |-> kind, provider |-> provider_name]
           /\ ret' = [kind |-> "raise", error |-> kind, message |-> "",
                      last_error |-> NoError]
           /\ pc' = "done"
    /\ UNCHANGED <<now, api_key, cache, request, stale_data, available, idx,
                   result, provider_health, consecutive_failures>>
    /\ UNCHANGED <<cache_op, peer, api_result, datareader, loaded, warm, http>>
    /\ UNCHANGED mirror

\* the provider call raises any other exception
ProviderFails(kind) ==
    /\ pc = "try"
    /\ (kind = "Error" \/ Responds(available[idx]))
    /\ LET provider_name == available[idx]
       IN  /\ invoked' = Append(invoked, provider_name)
           /\ provider_health' =
                [provider_health EXCEPT
                    ![provider_name] = _record_failure(@, now)]
           /\ consecutive_failures' =
                [consecutive_failures EXCEPT ![provider_name] = @ + 1]
           /\ Continue([kind |-> kind, provider |-> provider_name])
    /\ UNCHANGED <<now, api_key, cache, request, stale_data, available,
                   result>>
    /\ UNCHANGED <<cache_op, peer, api_result, datareader, loaded, warm, http>>
    /\ mirror' = MirrorAfterFailure(mirror, available[idx], last_error')

\* NotFound handled by the generic except clause
ProviderNotFoundPenalised == ProviderFails("NotFound")

\* the provider call raises DataProviderNotFoundError
ProviderNotFound ==
    /\ pc = "try"
    /\ Responds(available[idx])
    /\ LET provider_name == available[idx]
       IN  /\ invoked' = Append(invoked, provider_name)
           /\ Continue([kind |-> "NotFound", provider |-> provider_name])
    /\ UNCHANGED <<now, api_key, cache, request, stale_data, available,
                   result, provider_health, consecutive_failures>>
    /\ UNCHANGED <<cache_op, peer, api_result, datareader, loaded, warm, http>>
    /\ UNCHANGED mirror

\* the caller takes the result; the locals of the call are gone
Return ==
    /\ pc = "done"
    /\ pc' = "idle"
    /\ request' = NoRequest
    /\ stale_data' = <<>>
    /\ available' = <<>>
    /\ idx' = 0
    /\ last_error' = NoError
    /\ result' = NoResult
    /\ invoked' = <<>>
    /\ ret' = NoReturn
    /\ UNCHANGED <<now, api_key, provider_health, cache,
                   consecutive_failures>>
    /\ UNCHANGED <<cache_op, peer, api_result, datareader, loaded, warm, http>>
    /\ UNCHANGED mirror

\* the wall clock advances (a finished call is handed back at once)
Tick(ticks) ==
    /\ pc # "done"
    /\ now + TickStep <= ticks * TickStep
    /\ now' = now + TickStep
    /\ UNCHANGED <<api_key, provider_health, cache, pc, request, stale_data,
                   available, idx, last_error, result, invoked, ret,
                   consecutive_failures>>
    /\ UNCHANGED <<cache_op, peer, api_result, datareader, loaded, warm, http>>
    /\ UNCHANGED mirror

\* the steps of a call in progress
Step ==
    \/ \E data \in Payloads : ProviderReturns(data)
    \/ ProviderRateLimited
    \/ ProviderNotFound
    \/ \E kind \in {"Timeout", "Error"} : ProviderFails(kind)
    \/ Return

\* callers use all seven operations
Next ==
    \/ \E req \in Requests : Call(req, MaxRequests)
    \/ Step
    \/ Tick(MaxTicks)

Spec == Init /\ [][Next]_vars


\* every provider invocation returns or raises, and the caller takes the
\* outcome of a finished call
NextFair ==
    \/ \E req \in PriceRequests : Call(req, MaxFairRequests)
    \/ Step
    \/ Tick(MaxTicks)

SpecFair == Init /\ [][NextFair]_vars /\ WF_vars(Step)
\* callers only ask for prices
NextPrices ==
    \/ \E req \in PriceRequests : Call(req, MaxPriceRequests)
    \/ Step
    \/ Tick(MaxTicks)

SpecPrices == Init /\ [][NextPrices]_vars

\* callers only search line items
NextLineItems ==
    \/ \E req \in LineItemRequests : Call(req, MaxLineItemRequests)
    \/ Step
    \/ Tick(MaxTicksDeep)

SpecLineItems == Init /\ [][NextLineItems]_vars

(* ----------------------- the cache called directly --------------------- *)

\* the instants at which the clock is read in these calls: just before, at
\* and just after 0.8 * TTL and TTL of a prices entry stored at 0 or a
\* moment later
ClockInstants ==
    LET ttl == _ttl_config["prices"]
        r == ClockResolution
    IN  {0, r, (ttl * 8) \div 10 - r, (ttl * 8) \div 10,
         (ttl * 8) \div 10 + r, ttl - r, ttl, ttl + r}

\* no lookup is between its two readings of the clock
NoLookupInProgress == cache_op.op # "get_checked"

\* what the entry under key is on a clock reading t ("none": no entry)
Found(c, key, t) ==
    IF key \in DOMAIN c THEN status(c[key], t) ELSE "none"

\* ProviderAwareCache.set_prices
CacheSet(req, data, provider) ==
    /\ pc = "idle"
    /\ NoLookupInProgress
    /\ LET key == CacheSetKey(req)
       IN  /\ cache' = CacheAfterSet(cache, key, req.data_type, data,
                                     provider, now)
           /\ cache_op' =
                [op |-> "set", key |-> key, data |-> data,
                 provider |-> provider,
                 prior |-> Found(cache, key, now),
                 prior_provider |-> IF key \in DOMAIN cache
                                    THEN cache[key].provider ELSE "none"]
    /\ UNCHANGED <<now, api_key, provider_health, pc, request, stale_data,
                   available, idx, last_error, result, invoked, ret,
                   consecutive_failures, peer, api_result,
                   datareader, loaded, warm, http>>
    /\ UNCHANGED mirror

\* ProviderAwareCache.get_prices up to the validity test: a miss, an
\* eviction, or an entry found valid on this reading of the clock
CacheGetChecks(req) ==
    /\ pc = "idle"
    /\ NoLookupInProgress
    /\ LET key == CacheGetKey(req)
       IN  /\ cache' = CacheAfterGet(cache, key, now)
           /\ cache_op' =
                IF key \in DOMAIN cache /\ is_valid(cache[key], now)
                THEN [op |-> "get_checked", key |-> key]
                ELSE [op |-> "get", key |-> key, result |-> <<>>,
                      prior |-> Found(cache, key, now)]
    /\ UNCHANGED <<now, api_key, provider_health, pc, request, stale_data,
                   available, idx, last_error, result, invoked, ret,
                   consecutive_failures, peer, api_result,
                   datareader, loaded, warm, http>>
    /\ UNCHANGED mirror

\* ProviderAwareCache.get_prices, the return statement: entry.status reads
\* the clock again
CacheGetReturns ==
    /\ cache_op.op = "get_checked"
    /\ LET entry == cache[cache_op.key]
       IN  cache_op' =
                [op |-> "get", key |-> cache_op.key,
                 result |-> <<entry.data, entry.provider, status(entry, now)>>,
                 prior |-> status(entry, now)]
    /\ UNCHANGED <<now, api_key, provider_health, cache, pc, request,
                   stale_data, available, idx, last_error, result, invoked,
                   ret, consecutive_failures, peer, api_result,
                   datareader, loaded, warm, http>>
    /\ UNCHANGED mirror

\* the clock moves on to a later instant
CacheTick ==
    /\ \E t \in ClockInstants : t > now /\ now' = t
    /\ UNCHANGED <<api_key, provider_health, cache, pc, request, stale_data,
                   available, idx, last_error, result, invoked, ret,
                   consecutive_failures, cache_op, peer, api_result,
                   datareader, loaded, warm, http>>
    /\ UNCHANGED mirror

\* callers use the cache without the manager
NextCache ==
    \/ \E req \in PriceRequests, data \in Payloads, provider \in ProviderNames :
          CacheSet(req, data, provider)
    \/ \E req \in PriceRequests : CacheGetChecks(req)
    \/ CacheGetReturns
    \/ CacheTick

SpecCache == Init /\ [][NextCache]_vars

(* --------------------- two threads share the manager ------------------- *)

\* the provider call returns a result and ProviderAwareCache.set runs up to
\* its test of the existing entry: it will write, or keep the entry
ProviderAnswers(data) ==
    /\ pc = "try"
    /\ Responds(available[idx])
    /\ LET provider_name == available[idx]
           key == CacheSetKey(request)
           keep == /\ key \in DOMAIN cache
                   /\ status(cache[key], now) = "fresh"
                   /\ _provider_scores(provider_name)
                        <= _provider_scores(cache[key].provider)
       IN  /\ invoked' = Append(invoked, provider_name)
           /\ result' = data
           /\ pc' = IF keep THEN "record" ELSE "write"
    /\ UNCHANGED <<now, api_key, provider_health, cache, request, stale_data,
                   available, idx, last_error, ret, consecutive_failures,
                   cache_op, peer, api_result, datareader, loaded, warm, http>>
    /\ mirror' = MirrorAfterReturn(mirror, available[idx])

\* ProviderAwareCache.set builds the entry and puts it under the key
CacheWrites ==
    /\ pc = "write"
    /\ cache' = CacheAfterSetAlways(cache, CacheSetKey(request),
                                    request.data_type, result,
                                    available[idx], now)
    /\ pc' = "record"
    /\ UNCHANGED <<now, api_key, provider_health, request, stale_data,
                   available, idx, last_error, result, invoked, ret,
                   consecutive_failures, cache_op, peer, api_result,
                   datareader, loaded, warm, http>>
    /\ UNCHANGED mirror

\* _record_success, and the return of (result, provider_name)
SuccessRecorded ==
    /\ pc = "record"
    /\ LET provider_name == available[idx]
       IN  /\ provider_health' =
                [provider_health EXCEPT
                    ![provider_name] = _record_success(@)]
           /\ consecutive_failures' =
                [consecutive_failures EXCEPT ![provider_name] = 0]
           /\ ret' = Returned(<<result, provider_name>>)
           /\ pc' = "done"
    /\ UNCHANGED <<now, api_key, cache, request, stale_data, available, idx,
                   last_error, result, invoked, cache_op, peer, api_result,
                   datareader, loaded, warm, http>>
    /\ UNCHANGED mirror

\* the interpreter hands the lock to the other thread
Switch ==
    /\ peer' = [pc |-> pc, request |-> request, stale_data |-> stale_data,
                available |-> available, idx |-> idx,
                last_error |-> last_error, result |-> result,
                invoked |-> invoked, ret |-> ret]
    /\ pc' = peer.pc
    /\ request' = peer.request
    /\ stale_data' = peer.stale_data
    /\ available' = peer.available
    /\ idx' = peer.idx
    /\ last_error' = peer.last_error
    /\ result' = peer.result
    /\ invoked' = peer.invoked
    /\ ret' = peer.ret
    /\ loaded' = [mine |-> loaded.peers, peers |-> loaded.mine]
    /\ UNCHANGED <<now, api_key, provider_health, cache,
                   consecutive_failures, cache_op, api_result,
                   datareader, warm, http>>
    /\ UNCHANGED mirror

\* two threads ask for the same prices
NextConcurrent ==
    \/ \E req \in PriceRequests : Call(req, MaxConcurrentRequests)
    \/ \E data \in Payloads : ProviderAnswers(data)
    \/ CacheWrites
    \/ SuccessRecorded
    \/ ProviderRateLimited
    \/ ProviderNotFound
    \/ \E kind \in {"Timeout", "Error"} : ProviderFails(kind)
    \/ Return
    \/ Switch
    \/ Tick(MaxTicks)

SpecConcurrent == Init /\ [][NextConcurrent]_vars

(* ------------- two threads update the same health record --------------- *)

\* the positions inside _record_failure and _record_success at which a
\* counter is read for a +=, and the counter read there
LoadPositions ==
    {"load_total_f", "load_failure_count", "load_total_s", "load_successful"}

\* the positions at which the incremented value is written back
StorePositions ==
    {"store_total_f", "store_failure_count", "store_total_s",
     "store_successful"}

CounterAt(position) ==
    CASE position \in {"load_total_f", "store_total_f",
                       "load_total_s", "store_total_s"} -> "total_requests"
      [] position \in {"load_failure_count", "store_failure_count"}
                                                     -> "failure_count"
      [] OTHER -> "successful_requests"

\* where the thread is once it has read, and once it has written
PositionAfter(position) ==
    CASE position = "load_total_f" -> "store_total_f"
      [] position = "store_total_f" -> "load_failure_count"
      [] position = "load_failure_count" -> "store_failure_count"
      [] position = "store_failure_count" -> "failure_counted"
      [] position = "load_total_s" -> "store_total_s"
      [] position = "store_total_s" -> "load_successful"
      [] position = "load_successful" -> "store_successful"
      [] OTHER -> "success_counted"

\* the provider call raises an exception other than NotFound; the except
\* clause sets last_error and enters _record_failure
ProviderRaises(kind) ==
    /\ pc = "try"
    /\ (kind = "Error" \/ Responds(available[idx]))
    /\ invoked' = Append(invoked, available[idx])
    /\ last_error' = [kind |-> kind, provider |-> available[idx]]
    /\ pc' = "load_total_f"
    /\ UNCHANGED <<now, api_key, provider_health, cache, request, stale_data,
                   available, idx, result, ret, consecutive_failures,
                   cache_op, peer, api_result, datareader, loaded, warm, http>>
    /\ UNCHANGED mirror

\* the provider call returns a result, the cache setter runs, and
\* _record_success is entered
ProviderReturnsUnrecorded(data) ==
    /\ pc = "try"
    /\ Responds(available[idx])
    /\ invoked' = Append(invoked, available[idx])
    /\ cache' = CacheAfterSet(cache, CacheSetKey(request), request.data_type,
                              data, available[idx], now)
    /\ result' = data
    /\ pc' = "load_total_s"
    /\ UNCHANGED <<now, api_key, provider_health, request, stale_data,
                   available, idx, last_error, ret, consecutive_failures,
                   cache_op, peer, api_result, datareader, loaded, warm, http>>
    /\ mirror' = MirrorAfterReturn(mirror, available[idx])

\* the first half of health.<counter> += 1: the counter is read
CounterLoaded ==
    /\ pc \in LoadPositions
    /\ loaded' =
         [loaded EXCEPT !.mine = provider_health[available[idx]][CounterAt(pc)]]
    /\ pc' = PositionAfter(pc)
    /\ UNCHANGED <<now, api_key, provider_health, cache, request, stale_data,
                   available, idx, last_error, result, invoked, ret,
                   consecutive_failures, cache_op, peer, api_result,
                   datareader, warm, http>>
    /\ UNCHANGED mirror

\* the second half of health.<counter> += 1: the value read, plus one, is
\* written to the counter
CounterStored ==
    /\ pc \in StorePositions
    /\ provider_health' =
         [provider_health EXCEPT
            ![available[idx]][CounterAt(pc)] = loaded.mine + 1]
    /\ loaded' = [loaded EXCEPT !.mine = 0]
    /\ pc' = PositionAfter(pc)
    /\ UNCHANGED <<now, api_key, cache, request, stale_data, available, idx,
                   last_error, result, invoked, ret, consecutive_failures,
                   cache_op, peer, api_result, datareader, warm, http>>
    /\ UNCHANGED mirror

\* the rest of _record_failure: last_failure_time, the test that opens the
\* breaker, mark_unhealthy; then the loop continues
FailureRecorded ==
    /\ pc = "failure_counted"
    /\ LET provider_name == available[idx]
           h == [provider_health[provider_name] EXCEPT
                    !.last_failure_time = now]
       IN  /\ provider_health' =
                [provider_health EXCEPT
                   ![provider_name] =
                      IF /\ h.failure_count >= failure_threshold
                         /\ h.circuit_open_until = None
                      THEN _open_circuit(h, now)
                      ELSE h]
           /\ consecutive_failures' =
                [consecutive_failures EXCEPT ![provider_name] = @ + 1]
           /\ mirror' = MirrorAfterFailure(mirror, provider_name, last_error)
           /\ Continue(last_error)
    /\ UNCHANGED <<now, api_key, cache, request, stale_data, available,
                   result, invoked, cache_op, peer, api_result, datareader,
                   loaded, warm, http>>

\* the rest of _record_success: the test that closes the breaker; then the
\* return of (result, provider_name)
SuccessCounted ==
    /\ pc = "success_counted"
    /\ LET provider_name == available[idx]
           h == provider_health[provider_name]
           consecutive_successes ==
               h.successful_requests
                 - (h.total_requests - h.successful_requests)
       IN  /\ provider_health' =
                [provider_health EXCEPT
                   ![provider_name] =
                      IF /\ h.circuit_open_until # None
                         /\ consecutive_successes >= success_threshold
                      THEN _close_circuit(h)
                      ELSE h]
           /\ consecutive_failures' =
                [consecutive_failures EXCEPT ![provider_name] = 0]
           /\ ret' = Returned(<<result, provider_name>>)
           /\ pc' = "done"
    /\ UNCHANGED <<now, api_key, cache, request, stale_data, available, idx,
                   last_error, result, invoked, cache_op, peer, api_result,
                   datareader, loaded, warm, http>>
    /\ UNCHANGED mirror

\* two threads ask for the same prices; the interpreter may switch threads
\* between the two halves of a +=
NextConcurrentHealth ==
    \/ \E req \in PriceRequests : Call(req, MaxHealthRequests)
    \/ \E kind \in {"RateLimit", "Timeout", "Error"} : ProviderRaises(kind)
    \/ \E data \in Payloads : ProviderReturnsUnrecorded(data)
    \/ CounterLoaded
    \/ CounterStored
    \/ FailureRecorded
    \/ SuccessCounted
    \/ ProviderNotFound
    \/ Return
    \/ Switch

SpecConcurrentHealth == Init /\ [][NextConcurrentHealth]_vars

(* ------------------- the functions of tools/api.py --------------------- *)

\* the operations tools/api.py wraps
ApiRequests ==
    {req \in Requests :
        req.func_name \in {"get_prices", "get_financial_metrics",
                           "search_line_items", "get_insider_trades",
                           "get_company_news", "get_market_cap"}}

\* what the except clause of the function returns
EmptyValue(func_name) ==
    IF func_name = "get_market_cap" THEN "None" ELSE "empty list"

\* what the function returns for a payload of the manager: an empty payload
\* of a list function is the empty list (or null, for which len() raises
\* TypeError inside the try block), of get_market_cap it is null
ApiValue(func_name, data) ==
    IF data = "empty" THEN EmptyValue(func_name) ELSE data

\* a function that lets the manager's exception through
ApiOutcomeReraising(func_name, r) ==
    IF r.kind = "raise"
    THEN [outcome |-> "raise", value |-> r.error]
    ELSE [outcome |-> "return", value |-> ApiValue(func_name, r.data)]

\* the try / except Exception of the function around the manager call
ApiOutcome(func_name, r) ==
    IF r.kind = "raise"
    THEN [outcome |-> "return", value |-> EmptyValue(func_name)]
    ELSE [outcome |-> "return", value |-> ApiValue(func_name, r.data)]

\* the manager call made by the function has ended: the function returns
ApiReturns ==
    /\ pc = "done"
    /\ pc' = "api_done"
    /\ api_result' = ApiOutcome(request.func_name, ret)
    /\ UNCHANGED <<now, api_key, provider_health, cache, request, stale_data,
                   available, idx, last_error, result, invoked, ret,
                   consecutive_failures, cache_op, peer,
                   datareader, loaded, warm, http>>
    /\ UNCHANGED mirror

\* the caller of the function goes on with the value
ApiCallerResumes ==
    /\ pc = "api_done"
    /\ pc' = "idle"
    /\ api_result' = NoApiResult
    /\ request' = NoRequest
    /\ stale_data' = <<>>
    /\ available' = <<>>
    /\ idx' = 0
    /\ last_error' = NoError
    /\ result' = NoResult
    /\ invoked' = <<>>
    /\ ret' = NoReturn
    /\ UNCHANGED <<now, api_key, provider_health, cache,
                   consecutive_failures, cache_op, peer,
                   datareader, loaded, warm, http>>
    /\ UNCHANGED mirror

\* callers use the functions of tools/api.py
NextApi ==
    \/ \E req \in ApiRequests : Call(req, MaxRequests)
    \/ \E data \in Payloads : ProviderReturns(data)
    \/ ProviderRateLimited
    \/ ProviderNotFound
    \/ \E kind \in {"Timeout", "Error"} : ProviderFails(kind)
    \/ ApiReturns
    \/ ApiCallerResumes
    \/ Tick(MaxTicks)

SpecApi == Init /\ [][NextApi]_vars

(* ------------------------- the cache itself raises --------------------- *)

\* the cache lookup of _execute_with_fallback raises (a KeyError from an
\* entry another lookup has just evicted, a TypeError from json.dumps):
\* control is in the except clause of the lookup
CacheLookupRaises(req, budget) ==
    /\ pc = "idle"
    /\ TotalAttempts < budget
    /\ request' = req
    /\ pc' = "lookup_failed"
    /\ UNCHANGED <<now, api_key, provider_health, cache, stale_data,
                   available, idx, last_error, result, invoked, ret,
                   consecutive_failures, cache_op, peer, api_result,
                   datareader, loaded, warm, http>>
    /\ UNCHANGED mirror

\* a lookup error that leaves the manager as it was raised
LookupFailurePropagates ==
    /\ pc = "lookup_failed"
    /\ ret' = [kind |-> "raise", error |-> "CacheError", message |-> "",
               last_error |-> NoError]
    /\ pc' = "done"
    /\ UNCHANGED <<now, api_key, provider_health, cache, request, stale_data,
                   available, idx, last_error, result, invoked,
                   consecutive_failures, cache_op, peer, api_result,
                   datareader, loaded, warm, http>>
    /\ UNCHANGED mirror

\* except Exception around the lookup: the error is logged, stale_data is
\* still None, and the call builds its candidate list
LookupFailureHandled ==
    /\ pc = "lookup_failed"
    /\ LET candidates ==
               _get_available_providers(request.data_type, provider_health,
                                        now)
       IN  /\ stale_data' = <<>>
           /\ available' = candidates
           /\ IF candidates = <<>>
              THEN /\ pc' = "done"
                   /\ idx' = 0
                   /\ ret' = NoProviders(<<>>)
              ELSE /\ pc' = "try"
                   /\ idx' = 1
                   /\ ret' = NoReturn
    /\ UNCHANGED <<now, api_key, provider_health, cache, request, last_error,
                   result, invoked, consecutive_failures, cache_op, peer,
                   api_result, datareader, loaded, warm, http>>
    /\ UNCHANGED mirror

\* the provider call returns a result and the cache setter raises: control
\* is in the except clause around the setter
CacheStoreRaises(data) ==
    /\ pc = "try"
    /\ Responds(available[idx])
    /\ invoked' = Append(invoked, available[idx])
    /\ result' = data
    /\ pc' = "store_failed"
    /\ UNCHANGED <<now, api_key, provider_health, cache, request, stale_data,
                   available, idx, last_error, ret, consecutive_failures,
                   cache_op, peer, api_result, datareader, loaded, warm, http>>
    /\ mirror' = MirrorAfterReturn(mirror, available[idx])

\* a setter error handled as a failure of the provider
StoreFailureAsProviderFailure ==
    /\ pc = "store_failed"
    /\ LET provider_name == available[idx]
       IN  /\ provider_health' =
                [provider_health EXCEPT
                    ![provider_name] = _record_failure(@, now)]
           /\ consecutive_failures' =
                [consecutive_failures EXCEPT ![provider_name] = @ + 1]
           /\ Continue([kind |-> "Error", provider |-> provider_name])
    /\ UNCHANGED <<now, api_key, cache, request, stale_data, available,
                   result, invoked, cache_op, peer, api_result,
                   datareader, loaded, warm, http>>
    /\ mirror' = MirrorAfterFailure(mirror, available[idx], last_error')

\* except Exception around the setter: the error is logged, then
\* _record_success and the return of (result, provider_name)
StoreFailureHandled ==
    /\ pc = "store_failed"
    /\ LET provider_name == available[idx]
       IN  /\ provider_health' =
                [provider_health EXCEPT
                    ![provider_name] = _record_success(@)]
           /\ consecutive_failures' =
                [consecutive_failures EXCEPT ![provider_name] = 0]
           /\ ret' = Returned(<<result, provider_name>>)
           /\ pc' = "done"
    /\ UNCHANGED <<now, api_key, cache, request, stale_data, available, idx,
                   last_error, result, invoked, cache_op, peer, api_result,
                   datareader, loaded, warm, http>>
    /\ UNCHANGED mirror

\* callers ask for prices while cache calls may raise
NextCacheFaults ==
    \/ \E req \in PriceRequests : Call(req, MaxFaultRequests)
    \/ \E req \in PriceRequests : CacheLookupRaises(req, MaxFaultRequests)
    \/ LookupFailureHandled
    \/ \E data \in Payloads : CacheStoreRaises(data)
    \/ StoreFailureHandled
    \/ Step
    \/ Tick(MaxTicks)

SpecCacheFaults == Init /\ [][NextCacheFaults]_vars

(* ------------------ the providers' own health mirrors ------------------ *)

\* the names reset_provider_health is called with: "unknown" is not
\* registered
ResetNames == ProviderNames \cup {"unknown"}

\* a reset that clears the counters and leaves the breaker as it was
reset_provider_health_counters_only(provider_name) ==
    /\ pc = "idle"
    /\ IF provider_name \in DOMAIN provider_health
       THEN /\ provider_health' =
                 [provider_health EXCEPT
                    ![provider_name] =
                       [ProviderHealth EXCEPT
                          !.circuit_open_until = @]]
            /\ mirror' = mirror
       ELSE UNCHANGED <<provider_health, mirror>>
    /\ request' = [data_type |-> "none",
                   func_name |-> "reset_provider_health",
                   args |-> <<provider_name>>]
    /\ ret' = [kind |-> "return", data |-> "None", provider |-> "none"]
    /\ pc' = "done"
    /\ UNCHANGED <<now, api_key, cache, stale_data, available, idx,
                   last_error, result, invoked, consecutive_failures,
                   cache_op, peer, api_result, datareader, loaded, warm, http>>

\* reset_provider_health(provider_name), called between two manager calls;
\* it returns None
reset_provider_health(provider_name) ==
    /\ pc = "idle"
    /\ IF provider_name \in DOMAIN provider_health
       THEN /\ provider_health' =
                 [provider_health EXCEPT ![provider_name] = ProviderHealth]
            /\ mirror' =
                 IF provider_name \in DOMAIN mirror
                 THEN [mirror EXCEPT ![provider_name] = mark_healthy]
                 ELSE mirror
       ELSE UNCHANGED <<provider_health, mirror>>
    /\ request' = [data_type |-> "none",
                   func_name |-> "reset_provider_health",
                   args |-> <<provider_name>>]
    /\ ret' = [kind |-> "return", data |-> "None", provider |-> "none"]
    /\ pc' = "done"
    /\ UNCHANGED <<now, api_key, cache, stale_data, available, idx,
                   last_error, result, invoked, consecutive_failures,
                   cache_op, peer, api_result, datareader, loaded, warm, http>>

\* the failures on record for provider_name stay within the bound
\* (reset_provider_health does not touch the observer's count)
WithinObservedFailures(provider_name) ==
    provider_name \in ProviderNames
       => consecutive_failures[provider_name] <= MaxObservedFailures

\* callers ask for prices, on an installation with or without
\* pandas-datareader
NextMirrors ==
    \/ \E req \in PriceRequests : Call(req, MaxMirrorRequests)
    \/ Step
    \/ Tick(MaxTicks)

SpecMirrors == InitMirrors /\ [][NextMirrors]_vars

\* callers search line items and reset providers, all within the first
\* TickStep seconds
NextReset ==
    \/ \E req \in LineItemRequests : Call(req, MaxResetRequests)
    \/ Step
    \/ \E provider_name \in ResetNames :
          /\ WithinObservedFailures(provider_name)
          /\ reset_provider_health(provider_name)

\* every mirror is observed; pandas-datareader is installed
InitReset == InitMirrors /\ datareader

SpecReset == InitReset /\ [][NextReset]_vars


(* ------------------- the life of a health record ------------------- *)

\* callers search line items and reset providers while the clock moves past
\* the cooldown: a record is opened, outlives its cooldown, is closed or reset
NextLifecycle ==
    \/ \E req \in LineItemRequests : Call(req, MaxLifecycleRequests)
    \/ Step
    \/ Tick(MaxTicksDeep)
    \/ \E provider_name \in ResetNames :
          /\ WithinObservedFailures(provider_name)
          /\ reset_provider_health(provider_name)

\* FINANCIAL_DATASETS_API_KEY is not configured, so that sec_edgar is the
\* only candidate for line items
InitLifecycle == Init /\ ~api_key

SpecLifecycle == InitLifecycle /\ [][NextLifecycle]_vars


(* ----------------------- an entry that keeps ageing --------------------- *)

\* callers ask for prices while the clock moves past the TTL of prices
NextAgeing ==
    \/ \E req \in PriceRequests : Call(req, MaxAgeingRequests)
    \/ Step
    \/ Tick(MaxTicksDeep)

SpecAgeing == Init /\ [][NextAgeing]_vars


(* ---------------- FinancialDatasetsProvider._make_request --------------- *)

\* self.max_retries
max_retries == 3

\* what one HTTP attempt can be answered with: a status code
StatusCodes == {200, 404, 429, 500}

\* the entry of the log of responses for an attempt in which requests raised
\* instead of answering
NoResponse == 0

\* what _make_request raises
HttpRaised(error, message) ==
    [kind |-> "raise", error |-> error, message |-> message]

\* the exception requests raises
RequestException ==
    [kind |-> "RequestException", provider |-> "financialdatasets"]

\* _make_request is called: the for loop starts with attempt 0
_make_request ==
    /\ http.stage = "idle"
    /\ http.calls < MaxMakeRequests
    /\ http' = [http EXCEPT !.stage = "attempt", !.attempt = 0,
                            !.responses = <<>>, !.slept = 0,
                            !.outcome = NoReturn, !.calls = @ + 1]
    /\ UNCHANGED <<now, api_key, provider_health, cache, pc, request,
                   stale_data, available, idx, last_error, result, invoked,
                   ret, consecutive_failures, cache_op, peer, api_result,
                   mirror, datareader, loaded, warm>>

\* time.sleep(delay) and continue: the next iteration of
\* for attempt in range(self.max_retries + 1), or the code after the loop
\* (mark_unhealthy(last_exception) and DataProviderRateLimitError)
HttpContinue(h, delay, last_exception) ==
    IF h.attempt + 1 <= max_retries
    THEN [h EXCEPT !.attempt = @ + 1, !.slept = @ + delay]
    ELSE [h EXCEPT !.stage = "done", !.slept = @ + delay,
                   !.health = mark_unhealthy(last_exception),
                   !.outcome = HttpRaised("DataProviderRateLimitError",
                                          "Rate limit exceeded")]

\* the HTTP request of this attempt is answered with status_code
HttpResponds(status_code) ==
    /\ http.stage = "attempt"
    /\ LET h == [http EXCEPT !.responses = Append(@, status_code)]
       IN  http' =
             IF status_code = 429 /\ h.attempt < max_retries
             THEN HttpContinue(h, 60 + 30 * h.attempt, NoError)
             ELSE IF status_code = 404
             THEN [h EXCEPT !.stage = "done",
                            !.outcome = HttpRaised("DataProviderNotFoundError",
                                                   "Data not found")]
             ELSE IF status_code # 200
             THEN [h EXCEPT !.stage = "done",
                            !.outcome = HttpRaised("DataProviderError",
                                                   "API error")]
             ELSE [h EXCEPT !.stage = "done",
                            !.health = mark_healthy,
                            !.outcome = [kind |-> "return",
                                         status_code |-> status_code]]
    /\ UNCHANGED <<now, api_key, provider_health, cache, pc, request,
                   stale_data, available, idx, last_error, result, invoked,
                   ret, consecutive_failures, cache_op, peer, api_result,
                   mirror, datareader, loaded, warm>>

\* the HTTP request of this attempt raises requests' RequestException
HttpRaises ==
    /\ http.stage = "attempt"
    /\ LET h == [http EXCEPT !.responses = Append(@, NoResponse)]
       IN  http' =
             IF h.attempt < max_retries
             THEN HttpContinue(h, 30 * (h.attempt + 1), RequestException)
             ELSE [h EXCEPT !.stage = "done",
                            !.health = mark_unhealthy(RequestException),
                            !.outcome = HttpRaised("DataProviderError",
                                                   "Request failed")]
    /\ UNCHANGED <<now, api_key, provider_health, cache, pc, request,
                   stale_data, available, idx, last_error, result, invoked,
                   ret, consecutive_failures, cache_op, peer, api_result,
                   mirror, datareader, loaded, warm>>

\* the caller of _make_request takes the response or the exception
HttpCallerResumes ==
    /\ http.stage = "done"
    /\ http' = [http EXCEPT !.stage = "idle"]
    /\ UNCHANGED <<now, api_key, provider_health, cache, pc, request,
                   stale_data, available, idx, last_error, result, invoked,
                   ret, consecutive_failures, cache_op, peer, api_result,
                   mirror, datareader, loaded, warm>>

\* the methods of FinancialDatasetsProvider call _make_request
NextMakeRequest ==
    \/ _make_request
    \/ \E status_code \in StatusCodes : HttpResponds(status_code)
    \/ HttpRaises
    \/ HttpCallerResumes

SpecMakeRequest == Init /\ [][NextMakeRequest]_vars

(* ------------------------------ warm_cache ----------------------------- *)

\* the tickers warm_cache is called with: every list of up to MaxTickers
Tickers == {"AAPL", "MSFT"}

TickerLists == UNION { [1..n -> Tickers] : n \in 0..MaxTickers }

\* the three fetches warm_cache makes for a ticker, in their order
FetchStages == {"prices", "financial_metrics", "company_facts"}

\* the manager call of a stage: get_prices(ticker, start_date, end_date),
\* get_financial_metrics(ticker, end_date, limit=1), get_company_facts(ticker)
WarmRequest(ticker, stage) ==
    CASE stage = "prices" ->
           [data_type |-> "prices", func_name |-> "get_prices",
            args |-> <<ticker, "2024-01-01", "2024-01-31">>]
      [] stage = "financial_metrics" ->
           [data_type |-> "financial_metrics",
            func_name |-> "get_financial_metrics",
            args |-> <<ticker, "2024-01-31", "ttm", "1">>]
      [] OTHER ->
           [data_type |-> "company_facts", func_name |-> "get_company_facts",
            args |-> <<ticker>>]

\* warm_cache(tickers) is called and reaches its loop
warm_cache(tickers) ==
    /\ pc = "idle"
    /\ warm' = [tickers |-> tickers,
                i |-> IF tickers = <<>> THEN 0 ELSE 1,
                stage |-> IF tickers = <<>> THEN "returned" ELSE "prices",
                attempted |-> {}]
    /\ UNCHANGED <<now, api_key, provider_health, cache, pc, request,
                   stale_data, available, idx, last_error, result, invoked,
                   ret, consecutive_failures, cache_op, peer, api_result,
                   datareader, loaded, http>>
    /\ UNCHANGED mirror

\* the loop body makes the manager call of its stage
WarmFetches(budget) ==
    /\ warm.stage \in FetchStages
    /\ Call(WarmRequest(warm.tickers[warm.i], warm.stage), budget)

\* warm_cache after the ticker at position i: the next ticker, or the end
AfterTicker(w) ==
    IF w.i = Len(w.tickers)
    THEN [w EXCEPT !.stage = "returned"]
    ELSE [w EXCEPT !.i = @ + 1, !.stage = "prices"]

\* a warm_cache without the try: an error of a manager call leaves it
WarmAfterCallAborting(w, r) ==
    LET seen == [w EXCEPT !.attempted =
                    IF w.stage = "prices" THEN @ \cup {w.i} ELSE @]
    IN  IF r.kind = "raise" THEN [seen EXCEPT !.stage = "raised"]
        ELSE IF w.stage = "prices"
             THEN [seen EXCEPT !.stage = "financial_metrics"]
        ELSE IF w.stage = "financial_metrics"
             THEN [seen EXCEPT !.stage = "company_facts"]
        ELSE AfterTicker(seen)

\* warm_cache after a manager call has ended with r: an error is caught by
\* the except clause of the loop body, which ends the ticker
WarmAfterCall(w, r) ==
    LET seen == [w EXCEPT !.attempted =
                    IF w.stage = "prices" THEN @ \cup {w.i} ELSE @]
    IN  IF r.kind = "raise" THEN AfterTicker(seen)
        ELSE IF w.stage = "prices"
             THEN [seen EXCEPT !.stage = "financial_metrics"]
        ELSE IF w.stage = "financial_metrics"
             THEN [seen EXCEPT !.stage = "company_facts"]
        ELSE AfterTicker(seen)

\* the manager call returns or raises into warm_cache
WarmContinues ==
    /\ pc = "done"
    /\ warm.stage \in FetchStages
    /\ warm' = WarmAfterCall(warm, ret)
    /\ pc' = "idle"
    /\ request' = NoRequest
    /\ stale_data' = <<>>
    /\ available' = <<>>
    /\ idx' = 0
    /\ last_error' = NoError
    /\ result' = NoResult
    /\ invoked' = <<>>
    /\ ret' = NoReturn
    /\ UNCHANGED <<now, api_key, provider_health, cache,
                   consecutive_failures, cache_op, peer, api_result,
                   datareader, loaded, http>>
    /\ UNCHANGED mirror

\* one warm_cache call, the providers answering as they like
NextWarm ==
    \/ /\ warm = NotWarming
       /\ \E tickers \in TickerLists : warm_cache(tickers)
    \/ WarmFetches(MaxWarmRequests)
    \/ \E data \in Payloads : ProviderReturns(data)
    \/ ProviderRateLimited
    \/ ProviderNotFound
    \/ \E kind \in {"Timeout", "Error"} : ProviderFails(kind)
    \/ WarmContinues

SpecWarm == Init /\ [][NextWarm]_vars

(* --------------------------- cache key derivation ---------------------- *)

\* the values a keyword argument takes
KeywordValues == {"2024-01-31", "ttm"}

\* the kwargs dicts of up to MaxKwargs keywords, each as the sequence of its
\* (name, value) pairs in the order of the call
KwargsDicts ==
    UNION { { kwargs \in [1..n -> {KeywordNames[k] : k \in DOMAIN KeywordNames}
                                    \X KeywordValues] :
                \A i, j \in 1..n : i # j => kwargs[i][1] # kwargs[j][1] }
            : n \in 0..MaxKwargs }

\* the line-item lists of up to MaxLineItems names
LineItemLists == UNION { [1..n -> LineItemNames] : n \in 0..MaxLineItems }

\* _generate_cache_key runs for two calls with the same data type and
\* positional arguments
KeysDerived(req, kwargs, other_kwargs) ==
    /\ pc = "idle"
    /\ cache_op' =
         [op |-> "keys", kwargs |-> kwargs, other_kwargs |-> other_kwargs,
          key |-> _generate_cache_key_kwargs(req.data_type, req.args,
                                             kwargs),
          other_key |-> _generate_cache_key_kwargs(req.data_type, req.args,
                                                   other_kwargs)]
    /\ UNCHANGED <<now, api_key, provider_health, cache, pc, request,
                   stale_data, available, idx, last_error, result, invoked,
                   ret, consecutive_failures, peer, api_result,
                   datareader, loaded, warm, http>>
    /\ UNCHANGED mirror

\* set_line_items and search_line_items_cached derive their keys for the
\* same ticker, end_date, period and limit
LineItemKeysDerived(req, line_items, other_line_items) ==
    /\ pc = "idle"
    /\ cache_op' =
         [op |-> "line_item_keys", line_items |-> line_items,
          other_line_items |-> other_line_items,
          key |-> set_line_items(req.args[1], line_items, req.args[3],
                                 req.args[4], req.args[5]),
          other_key |-> search_line_items_cached(req.args[1],
                            other_line_items, req.args[3], req.args[4],
                            req.args[5])]
    /\ UNCHANGED <<now, api_key, provider_health, cache, pc, request,
                   stale_data, available, idx, last_error, result, invoked,
                   ret, consecutive_failures, peer, api_result,
                   datareader, loaded, warm, http>>
    /\ UNCHANGED mirror

\* a caller derives the keys of one pair of calls
NextKeys ==
    \/ /\ cache_op = NoCacheOp
       /\ \E req \in Requests \ LineItemRequests :
             \E kwargs, other_kwargs \in KwargsDicts :
                KeysDerived(req, kwargs, other_kwargs)
    \/ /\ cache_op = NoCacheOp
       /\ \E req \in LineItemRequests :
             \E line_items, other_line_items \in LineItemLists :
                LineItemKeysDerived(req, line_items, other_line_items)

SpecKeys == Init /\ [][NextKeys]_vars

(* ------------------------------ properties ----------------------------- *)

\* s is an order-preserving subsequence of t, for t without repetitions
\* (no priority list names a provider twice)
IsSubsequence(s, t) ==
    /\ \A i \in DOMAIN s : \E k \in DOMAIN t : t[k] = s[i]
    /\ \A i, j \in DOMAIN s :
          i < j => \E k, l \in DOMAIN t : k < l /\ t[k] = s[i] /\ t[l] = s[j]

\* a call is in progress or has just finished
InCall == pc \in {"try", "done"}

\* the call in progress ended because a provider returned a result
ProviderSucceeded == pc = "done" /\ idx \in 1..Len(available)

\* the call in progress ended because every candidate raised
AllCandidatesFailed ==
    pc = "done" /\ available # <<>> /\ idx > Len(available)

\* this step is the start of a manager call
CallStarts == pc = "idle" /\ pc' # "idle"

\* the breaker of provider p is Open at the current time
BreakerOpen(p) ==
    /\ provider_health[p].circuit_open_until # None
    /\ now < provider_health[p].circuit_open_until

\* C1: the providers a call invokes form an order-preserving subsequence of
\* the data type's priority list; when a provider succeeds the call returns
\* that provider's result tagged with its name, the successful provider is
\* the last one invoked, and candidates ranked after it are never invoked.
C1_FallbackOrder ==
    InCall =>
        /\ IsSubsequence(invoked, provider_priorities[request.data_type])
        /\ ProviderSucceeded =>
             /\ invoked # <<>>
             /\ invoked[Len(invoked)] = available[idx]
             /\ ret.kind = "return"
             /\ ret.provider = available[idx]
             /\ result \in Payloads
             /\ ret.data = result
             /\ \A i \in (idx + 1)..Len(available) :
                    \A j \in DOMAIN invoked : invoked[j] # available[i]

\* C1 witness: the first candidate failed, the second succeeded, and a third
\* candidate was left alone
C1_Witness ==
    /\ ProviderSucceeded
    /\ Len(invoked) = 2
    /\ Len(available) = 3
    /\ last_error.kind = "RateLimit"

\* C2: a call whose cache lookup yields a Fresh entry returns that entry's
\* payload and provider name, invokes no provider, and leaves every
\* ProviderHealth record and the cache as they were.
C2_FreshHitFrame ==
    [][(CallStarts /\ CacheGetKey(request') \in DOMAIN cache
          /\ age(cache[CacheGetKey(request')], now) * 10
               < cache[CacheGetKey(request')].ttl_seconds * 8)
       => /\ pc' = "done"
          /\ ret' = [kind |-> "return",
                     data |-> cache[CacheGetKey(request')].data,
                     provider |-> cache[CacheGetKey(request')].provider]
          /\ invoked' = <<>>
          /\ provider_health' = provider_health
          /\ cache' = cache]_vars

\* C2 witness: a call answered from a Fresh entry
C2_Witness ==
    /\ pc = "done"
    /\ invoked = <<>>
    /\ ret.kind = "return"
    /\ CacheGetKey(request) \in DOMAIN cache
    /\ status(cache[CacheGetKey(request)], now) = "fresh"
    /\ ret.data = cache[CacheGetKey(request)].data

Range(s) == {s[i] : i \in DOMAIN s}

\* provider p is listed for data type dt and declares support for it
Listed(p, dt) ==
    p \in Range(provider_priorities[dt]) /\ supports_feature(p, dt)

\* the names in the candidate list a call for dt would build now
Candidates(dt) == Range(_get_available_providers(dt, provider_health, now))

\* the entry the lookup of req finds, by its freshness state
LookupFinds(req, state) ==
    /\ CacheGetKey(req) \in DOMAIN cache
    /\ LET entry == cache[CacheGetKey(req)]
           a == now - entry.timestamp
       IN  CASE state = "fresh" -> a * 10 < entry.ttl_seconds * 8
             [] state = "stale" -> a * 10 >= entry.ttl_seconds * 8
                                   /\ a < entry.ttl_seconds
             [] OTHER -> a >= entry.ttl_seconds

\* C3 (as claimed): a provider with fewer than failure_threshold consecutive
\* recorded failures is in the candidate list of every data type it is listed
\* for, and the failure that makes failure_threshold consecutive ones takes
\* it out of every candidate list.
C3_OpensExactlyAtThreshold ==
    /\ [](\A p \in ProviderNames : \A dt \in DataTypes :
            (consecutive_failures[p] < failure_threshold /\ Listed(p, dt))
                => p \in Candidates(dt))
    /\ [][\A p \in ProviderNames :
            (/\ consecutive_failures[p] = failure_threshold - 1
             /\ consecutive_failures'[p] = failure_threshold)
                => \A dt \in DataTypes : p \notin Candidates(dt)']_vars

\* C4 (as claimed): once the cooldown has elapsed the provider is back in
\* the candidate lists, and the second consecutive success recorded since
\* then closes the breaker (circuit_open_until cleared, failure_count 0,
\* is_healthy true).  A record with circuit_open_until set and no failure
\* since the last success has had a success after the breaker opened.
C4_ClosesAfterSuccessStreak ==
    /\ [](\A p \in ProviderNames : \A dt \in DataTypes :
            (/\ provider_health[p].circuit_open_until # None
             /\ now >= provider_health[p].circuit_open_until
             /\ Listed(p, dt))
                => p \in Candidates(dt))
    /\ [][\A p \in ProviderNames :
            (/\ provider_health'[p].successful_requests
                  = provider_health[p].successful_requests + 1
             /\ provider_health[p].circuit_open_until # None
             /\ now >= provider_health[p].circuit_open_until
             /\ consecutive_failures[p] = 0)
                => /\ provider_health'[p].circuit_open_until = None
                   /\ provider_health'[p].failure_count = 0
                   /\ provider_health'[p].is_healthy]_vars

\* C5: a provider whose breaker is Open is not among the candidates a call
\* still has to try, so no call invokes it.
C5_OpenNeverInvoked ==
    pc = "try" =>
        \A i \in idx..Len(available) : ~BreakerOpen(available[i])

\* C5 witness: a call is trying candidates while a listed provider that
\* supports the data type is Open
C5_Witness ==
    /\ pc = "try"
    /\ \E p \in ProviderNames :
          Listed(p, request.data_type) /\ BreakerOpen(p)

\* C6: a provider call that ends in NotFound leaves that provider's
\* failure_count, is_healthy and circuit_open_until as they were.
C6_NotFoundNoPenalty ==
    [][\A p \in ProviderNames :
         (/\ invoked' = Append(invoked, p)
          /\ last_error' = [kind |-> "NotFound", provider |-> p])
            => /\ provider_health'[p].failure_count
                    = provider_health[p].failure_count
               /\ provider_health'[p].is_healthy
                    = provider_health[p].is_healthy
               /\ provider_health'[p].circuit_open_until
                    = provider_health[p].circuit_open_until]_vars

\* C6 witness: a call in which every candidate answered NotFound; the
\* breakers are Closed and nothing was counted
C6_Witness ==
    /\ AllCandidatesFailed
    /\ Len(invoked) >= 2
    /\ last_error.kind = "NotFound"
    /\ \A p \in Range(invoked) : provider_health[p] = ProviderHealth

\* C7: when the lookup finds a Stale entry (X, P1) it is kept as the stale
\* fallback of the call, and a call whose candidates all fail returns that
\* fallback instead of raising.
C7_StaleDegradation ==
    [][/\ (CallStarts /\ LookupFinds(request', "stale"))
            => stale_data' = <<cache[CacheGetKey(request')].data,
                               cache[CacheGetKey(request')].provider>>
       /\ (pc = "try" /\ pc' # "idle") => stale_data' = stale_data
       /\ (AllCandidatesFailed' /\ stale_data' # <<>>)
            => ret' = [kind |-> "return", data |-> stale_data'[1],
                       provider |-> stale_data'[2]]]_vars

\* C7 witness: every candidate failed and the stale entry was returned
C7_Witness ==
    /\ AllCandidatesFailed
    /\ stale_data # <<>>
    /\ ret.kind = "return"
    /\ last_error.kind = "Error"

\* C8: with no usable cache entry the call has no stale fallback, and when
\* every candidate has failed it raises DataProviderError carrying the error
\* raised by the last candidate attempted.
C8_TotalExhaustion ==
    [][/\ (CallStarts /\ ~LookupFinds(request', "fresh")
                      /\ ~LookupFinds(request', "stale"))
            => stale_data' = <<>>
       /\ (AllCandidatesFailed' /\ stale_data' = <<>>)
            => /\ ret'.kind = "raise"
               /\ ret'.error = "DataProviderError"
               /\ ret'.message = "All providers failed"
               /\ ret'.last_error = last_error'
               /\ last_error'.kind \in ErrorKinds
               /\ last_error'.provider = invoked'[Len(invoked')]
               /\ invoked'[Len(invoked')] = available'[Len(available')]]_vars

\* C8 witness: two candidates failed with different errors and the call
\* raised
C8_Witness ==
    /\ AllCandidatesFailed
    /\ ret.kind = "raise"
    /\ Len(invoked) >= 2
    /\ last_error.kind = "Timeout"

\* every provider listed for dt is Open or declares non-support
AllExcluded(dt) ==
    \A p \in Range(provider_priorities[dt]) :
        BreakerOpen(p) \/ ~supports_feature(p, dt)

\* C9: a call that finds no Fresh entry and an empty candidate list invokes
\* no provider and changes no health record; it returns the Stale entry with
\* its original provider name if there is one and raises "No available
\* providers" otherwise.
C9_EmptyCandidateList ==
    [][(CallStarts /\ ~LookupFinds(request', "fresh")
                   /\ AllExcluded(request'.data_type))
         => /\ pc' = "done"
            /\ invoked' = <<>>
            /\ provider_health' = provider_health
            /\ ret' = IF LookupFinds(request', "stale")
                      THEN [kind |-> "return",
                            data |-> cache[CacheGetKey(request')].data,
                            provider |-> cache[CacheGetKey(request')].provider]
                      ELSE [kind |-> "raise", error |-> "DataProviderError",
                            message |-> "No available providers",
                            last_error |-> NoError]]_vars

\* C9 witness: the candidate list was empty and the stale entry was returned
C9_Witness ==
    /\ pc = "done"
    /\ request # NoRequest
    /\ available = <<>>
    /\ stale_data # <<>>
    /\ ret.kind = "return"
    /\ AllExcluded(request.data_type)

\* C10: a provider that declares non-support for a data type is in no
\* candidate list for it whatever its breaker state, is not invoked by a call
\* for it, and its health record is not changed by such a call.
C10_CapabilityFilter ==
    /\ [](\A dt \in DataTypes :
            \A p \in Range(provider_priorities[dt]) :
                ~supports_feature(p, dt) => p \notin Candidates(dt))
    /\ [][\A p \in ProviderNames :
            (InCall' /\ ~supports_feature(p, request'.data_type))
               => /\ p \notin Range(available')
                  /\ p \notin Range(invoked')
                  /\ provider_health'[p] = provider_health[p]]_vars

\* C10 witness: a call tries candidates for a data type that a listed
\* provider does not support
C10_Witness ==
    /\ pc = "try"
    /\ invoked # <<>>
    /\ \E p \in Range(provider_priorities[request.data_type]) :
          ~supports_feature(p, request.data_type)

\* this step is a direct store, for the key cache_op' names
SetStep == cache_op'.op = "set" /\ now' = now

\* the age of an entry on the current clock, against its TTL
AgeBelowFourFifths(entry) ==
    (now - entry.timestamp) * 5 < entry.ttl_seconds * 4

AgeBelowTTL(entry) == now - entry.timestamp < entry.ttl_seconds

\* the entry a store of cache_op' writes at time t
Written(op, t) ==
    /\ op.key \in DOMAIN cache'
    /\ cache'[op.key].data = op.data
    /\ cache'[op.key].provider = op.provider
    /\ cache'[op.key].timestamp = t

\* C11: a store for a key whose entry is Fresh leaves the entry (payload,
\* provider, timestamp) unchanged when the storing provider's rank is less
\* than or equal to the rank of the entry's provider, and replaces it when
\* the rank is strictly greater.
C11_NonClobber ==
    [][(/\ SetStep
        /\ cache_op'.key \in DOMAIN cache
        /\ AgeBelowFourFifths(cache[cache_op'.key]))
         => IF _provider_scores(cache_op'.provider)
                 <= _provider_scores(cache[cache_op'.key].provider)
            THEN cache' = cache
            ELSE Written(cache_op', now)]_vars

\* C11 witness: a store by a lower-ranked provider with another payload was
\* dropped in favour of the Fresh entry
C11_Witness ==
    /\ cache_op.op = "set"
    /\ cache_op.prior = "fresh"
    /\ _provider_scores(cache_op.provider)
         < _provider_scores(cache_op.prior_provider)
    /\ cache[cache_op.key].provider = cache_op.prior_provider
    /\ cache[cache_op.key].data # cache_op.data
    /\ cache[cache_op.key].timestamp < now

\* C12 (as claimed): while two threads call the manager for the same key,
\* a Fresh entry is not replaced by the result of a provider ranked lower
\* than the provider that supplied it.
C12_NoFlapping ==
    [][\A key \in DOMAIN cache :
         (/\ AgeBelowFourFifths(cache[key])
          /\ key \in DOMAIN cache'
          /\ cache'[key] # cache[key])
            => _provider_scores(cache'[key].provider)
                 >= _provider_scores(cache[key].provider)]_vars

\* C13 (as claimed): a call that finds the entry an earlier identical call
\* stored still Fresh returns that entry's payload and provider name and
\* invokes no provider.
C13_RepeatServedFromCache ==
    [][(/\ CallStarts
        /\ CacheSetKey(request') \in DOMAIN cache
        /\ AgeBelowFourFifths(cache[CacheSetKey(request')]))
         => /\ pc' = "done"
            /\ invoked' = <<>>
            /\ ret' = [kind |-> "return",
                       data |-> cache[CacheSetKey(request')].data,
                       provider |-> cache[CacheSetKey(request')].provider]]_vars

\* C14 (as claimed): a lookup never returns an entry with the Expired
\* status, and a lookup of a key whose entry has age >= TTL returns a miss
\* and removes the entry.
C14_NeverReturnsExpired ==
    /\ []((cache_op.op = "get" /\ cache_op.result # <<>>)
            => cache_op.result[3] # "expired")
    /\ [][(/\ cache_op.op # "get_checked"
           /\ cache_op'.op \in {"get", "get_checked"}
           /\ now' = now
           /\ cache_op'.key \in DOMAIN cache
           /\ ~AgeBelowTTL(cache[cache_op'.key]))
            => /\ cache_op'.op = "get"
               /\ cache_op'.result = <<>>
               /\ cache_op'.key \notin DOMAIN cache']_vars

\* the place of a state in the life of an entry
StateOrder(state) ==
    CASE state = "fresh" -> 1
      [] state = "stale" -> 2
      [] state = "expired" -> 3

\* C15: an entry is Fresh exactly when age < 0.8 * TTL, Stale exactly when
\* 0.8 * TTL <= age < TTL and Expired exactly when age >= TTL; this is the
\* status a lookup reports; and while an entry stays in the cache its state
\* only moves forward.
C15_FreshnessStates ==
    /\ [](\A key \in DOMAIN cache :
            /\ status(cache[key], now) = "fresh"
                 <=> AgeBelowFourFifths(cache[key])
            /\ status(cache[key], now) = "stale"
                 <=> (~AgeBelowFourFifths(cache[key])
                        /\ AgeBelowTTL(cache[key]))
            /\ status(cache[key], now) = "expired"
                 <=> ~AgeBelowTTL(cache[key]))
    /\ [][/\ (cache_op.op = "get_checked" /\ cache_op'.op = "get")
              => cache_op'.result[3]
                   = IF AgeBelowFourFifths(cache[cache_op.key]) THEN "fresh"
                     ELSE IF AgeBelowTTL(cache[cache_op.key]) THEN "stale"
                     ELSE "expired"
          /\ \A key \in DOMAIN cache \cap DOMAIN cache' :
                cache'[key] = cache[key]
                  => StateOrder(status(cache[key], now))
                       <= StateOrder(status(cache'[key], now'))]_vars

\* C15 witness: a lookup reported Stale for an entry whose age is exactly
\* 0.8 * TTL
C15_Witness ==
    /\ cache_op.op = "get"
    /\ cache_op.result # <<>>
    /\ cache_op.result[3] = "stale"
    /\ (now - cache[cache_op.key].timestamp) * 5
         = cache[cache_op.key].ttl_seconds * 4

\* C16: a store for a key whose entry is Stale or Expired replaces it with
\* the new payload, provider and timestamp, whatever the two ranks.
C16_StaleOverwritten ==
    [][(/\ SetStep
        /\ cache_op'.key \in DOMAIN cache
        /\ ~AgeBelowFourFifths(cache[cache_op'.key]))
         => Written(cache_op', now)]_vars

\* C16 witness: a store by a lower-ranked provider replaced an Expired entry
C16_Witness ==
    /\ cache_op.op = "set"
    /\ cache_op.prior = "expired"
    /\ _provider_scores(cache_op.provider)
         < _provider_scores(cache_op.prior_provider)
    /\ cache[cache_op.key].provider = cache_op.provider
    /\ cache[cache_op.key].data = cache_op.data
    /\ cache[cache_op.key].timestamp = now

\* C17: when a call holds a stale fallback and a candidate succeeds, the call
\* returns the provider's result tagged with that provider, and the entry of
\* the key is replaced by that result, so that an identical lookup made at
\* once is a Fresh hit on it.
C17_StaleRefreshed ==
    [][(pc = "try" /\ stale_data # <<>> /\ ProviderSucceeded')
         => /\ result' \in Payloads
            /\ ret' = [kind |-> "return", data |-> result',
                       provider |-> available[idx]]
            /\ CacheGetKey(request) \in DOMAIN cache'
            /\ cache'[CacheGetKey(request)].data = result'
            /\ cache'[CacheGetKey(request)].provider = available[idx]
            /\ cache'[CacheGetKey(request)].timestamp = now
            /\ CacheGetResult(cache', CacheGetKey(request), now')
                 = <<result', available[idx], "fresh">>]_vars

\* C17 witness: a lower-ranked provider's new result replaced the stale
\* entry of another provider and was returned
C17_Witness ==
    /\ ProviderSucceeded
    /\ stale_data # <<>>
    /\ stale_data[1] # ret.data
    /\ _provider_scores(ret.provider) < _provider_scores(stale_data[2])
    /\ cache[CacheGetKey(request)].data = ret.data
    /\ cache[CacheGetKey(request)].provider = ret.provider

\* C18 (as claimed): every provider attempt adds exactly 1 to that
\* provider's total_requests, whatever its outcome, and every successful
\* attempt adds exactly 1 to its successful_requests.
C18_EveryAttemptCounted ==
    [][\A p \in ProviderNames :
         invoked' = Append(invoked, p)
            => /\ provider_health'[p].total_requests
                    = provider_health[p].total_requests + 1
               /\ ProviderSucceeded'
                    => provider_health'[p].successful_requests
                         = provider_health[p].successful_requests + 1]_vars

\* C19: a rate limit, timeout or generic error of a candidate does not reach
\* the caller: exactly one failure is recorded for that provider
\* (failure_count + 1, last_failure_time the current time) and the call goes
\* on with the next candidate; after the last candidate it ends with the
\* stale fallback or with the manager's own DataProviderError.
C19_FailuresAbsorbed ==
    [][\A p \in ProviderNames :
         (/\ pc = "try"
          /\ invoked' = Append(invoked, p)
          /\ last_error'.provider = p
          /\ last_error'.kind \in {"RateLimit", "Timeout", "Error"})
            => /\ provider_health'[p].failure_count
                    = provider_health[p].failure_count + 1
               /\ provider_health'[p].last_failure_time = now
               /\ \A q \in ProviderNames \ {p} :
                     provider_health'[q] = provider_health[q]
               /\ available' = available
               /\ idx' = idx + 1
               /\ IF idx < Len(available)
                  THEN pc' = "try" /\ ret' = NoReturn
                  ELSE /\ pc' = "done"
                       /\ IF stale_data # <<>>
                          THEN ret' = [kind |-> "return",
                                       data |-> stale_data[1],
                                       provider |-> stale_data[2]]
                          ELSE /\ ret'.kind = "raise"
                               /\ ret'.error = "DataProviderError"]_vars

\* C19 witness: the first candidate timed out, one failure was recorded for
\* it at the current time, and the call is about to try the second
C19_Witness ==
    /\ pc = "try"
    /\ idx = 2
    /\ now > 0
    /\ last_error.kind = "Timeout"
    /\ last_error.provider = available[1]
    /\ provider_health[available[1]].failure_count = 1
    /\ provider_health[available[1]].last_failure_time = now

\* C20: a function of tools/api.py never raises: whatever the manager call
\* did, it returns; the value is the empty list (None for get_market_cap)
\* when the manager call raised, and the manager's payload otherwise.
C20_ApiNeverRaises ==
    /\ api_result # NoApiResult <=> pc = "api_done"
    /\ pc = "api_done" =>
         /\ api_result.outcome = "return"
         /\ ret.kind = "raise" =>
              api_result.value
                = IF request.func_name = "get_market_cap" THEN "None"
                  ELSE "empty list"
         /\ (ret.kind = "return" /\ ret.data = "data") =>
              api_result.value = "data"

\* C20 witness: every candidate of get_market_cap failed, the manager raised
\* and the function returned None
C20_Witness ==
    /\ pc = "api_done"
    /\ request.func_name = "get_market_cap"
    /\ Len(invoked) = 2
    /\ ret.kind = "raise"
    /\ ret.message = "All providers failed"
    /\ api_result = [outcome |-> "return", value |-> "None"]

\* a success or a failure is recorded for provider p in this step
SuccessRecordedFor(p) ==
    provider_health'[p].successful_requests
      = provider_health[p].successful_requests + 1

FailureRecordedFor(p) ==
    provider_health'[p].failure_count = provider_health[p].failure_count + 1

\* C24 (as claimed): a success recorded for a provider sets its
\* failure_count to 0, and a breaker is only opened by a failure that is at
\* least the failure_threshold-th since the provider's last recorded success.
C24_FailureCountConsecutive ==
    [][\A p \in ProviderNames :
         /\ SuccessRecordedFor(p) => provider_health'[p].failure_count = 0
         /\ (/\ provider_health[p].circuit_open_until = None
             /\ provider_health'[p].circuit_open_until # None)
              => consecutive_failures'[p] >= failure_threshold]_vars

\* C25 (as claimed): a recorded failure that brings failure_count to
\* failure_threshold or more while no cooldown is active (circuit_open_until
\* unset or elapsed) sets circuit_open_until to now + circuit_timeout and
\* is_healthy to false; a failure recorded while a cooldown is active leaves
\* circuit_open_until as it was.
C25_OpensWheneverNoCooldown ==
    [][\A p \in ProviderNames :
         FailureRecordedFor(p) =>
            IF provider_health[p].circuit_open_until # None
               /\ now < provider_health[p].circuit_open_until
            THEN provider_health'[p].circuit_open_until
                   = provider_health[p].circuit_open_until
            ELSE provider_health'[p].failure_count >= failure_threshold
                   => /\ provider_health'[p].circuit_open_until
                           = now + circuit_timeout
                      /\ ~provider_health'[p].is_healthy]_vars


\* C21: when the cache lookup of a manager call raises, the call goes on as
\* after a miss: no stale entry is kept for a fallback, the cache is left
\* alone, and the call either tries the first candidate or, with no
\* candidate, ends like any call without a provider; the caller never sees
\* the error of the cache.
C21_LookupFailureIsMiss ==
    [][pc = "lookup_failed" /\ pc' # "lookup_failed" =>
         LET candidates ==
                 _get_available_providers(request.data_type, provider_health,
                                          now)
         IN  /\ stale_data' = <<>>
             /\ cache' = cache /\ provider_health' = provider_health
             /\ request' = request
             /\ IF candidates = <<>>
                THEN /\ pc' = "done"
                     /\ ret' = Raised("No available providers", NoError)
                ELSE /\ pc' = "try"
                     /\ available' = candidates
                     /\ idx' = 1
                     /\ ret' = NoReturn]_vars

\* a call whose lookup raised ends in the error of the exhausted candidates
\* although a Stale entry is under its key
C21_Witness ==
    /\ pc = "done"
    /\ ret.kind = "raise"
    /\ ret.message = "All providers failed"
    /\ LookupFinds(request, "stale")

\* C22: when the cache setter raises after a provider returned a result,
\* the call returns that result with the provider's name, the success is
\* recorded for the provider, no further candidate is invoked and the cache
\* is left alone.
C22_StoreFailureStillSucceeds ==
    [][pc = "store_failed" /\ pc' # "store_failed" =>
         LET provider_name == available[idx]
         IN  /\ pc' = "done"
             /\ ret' = Returned(<<result, provider_name>>)
             /\ SuccessRecordedFor(provider_name)
             /\ provider_health'[provider_name].total_requests
                  = provider_health[provider_name].total_requests + 1
             /\ provider_health'[provider_name].failure_count
                  = provider_health[provider_name].failure_count
             /\ \A p \in ProviderNames \ {provider_name} :
                   provider_health'[p] = provider_health[p]
             /\ invoked' = invoked
             /\ cache' = cache]_vars

\* a call returns a provider's result while nothing is cached under its key
C22_Witness ==
    /\ pc = "done"
    /\ ret.kind = "return"
    /\ invoked # <<>>
    /\ ret.provider = invoked[Len(invoked)]
    /\ ret.data = "data"
    /\ CacheSetKey(request) \notin DOMAIN cache

\* the number of positions of s that hold v
Count(s, v) == Cardinality({i \in DOMAIN s : s[i] = v})

\* s and t hold the same elements, each as often
IsPermutation(s, t) ==
    /\ Len(s) = Len(t)
    /\ \A v \in Range(s) \cup Range(t) : Count(s, v) = Count(t, v)

\* C28: two key derivations for the same data type and positional arguments
\* whose keyword arguments are the same set of (name, value) pairs, written
\* in any order, give the same key.
C28_KeyStability ==
    cache_op.op = "keys" /\ Range(cache_op.kwargs) = Range(cache_op.other_kwargs)
       => cache_op.key = cache_op.other_key

\* the same keywords were passed in two different orders
C28_Witness ==
    /\ cache_op.op = "keys"
    /\ Len(cache_op.kwargs) >= 2
    /\ cache_op.kwargs # cache_op.other_kwargs
    /\ Range(cache_op.kwargs) = Range(cache_op.other_kwargs)
    /\ cache_op.key = cache_op.other_key

\* C29: set_line_items with a list of line items and
\* search_line_items_cached with any permutation of that list, for the same
\* ticker, end_date, period and limit, use the same cache key.
C29_LineItemsOrderInsensitive ==
    /\ cache_op.op = "line_item_keys"
    /\ IsPermutation(cache_op.line_items, cache_op.other_line_items)
    => cache_op.key = cache_op.other_key

\* a list and a different ordering of it
C29_Witness ==
    /\ cache_op.op = "line_item_keys"
    /\ cache_op.line_items # cache_op.other_line_items
    /\ IsPermutation(cache_op.line_items, cache_op.other_line_items)
    /\ cache_op.key = cache_op.other_key

\* this step is a call of reset_provider_health
ResetStep == pc = "idle" /\ request'.func_name = "reset_provider_health"

\* C26: reset_provider_health(p) for a registered p puts p's health record
\* back to its initial value and p's mirror to healthy, so that p is a
\* candidate again for every data type it is listed for; the records and
\* mirrors of the other providers and the cache stay as they are. For a name
\* that is not registered nothing changes.
C26_ResetFrame ==
    [][ResetStep =>
         LET p == request'.args[1]
         IN  /\ cache' = cache
             /\ \A q \in ProviderNames \ {p} :
                   /\ provider_health'[q] = provider_health[q]
                   /\ mirror'[q] = mirror[q]
             /\ p \in ProviderNames =>
                   /\ provider_health'[p] = ProviderHealth
                   /\ provider_health'[p].is_healthy
                   /\ provider_health'[p].failure_count = 0
                   /\ provider_health'[p].circuit_open_until = None
                   /\ provider_health'[p].total_requests = 0
                   /\ provider_health'[p].successful_requests = 0
                   /\ mirror'[p] = mark_healthy
                   /\ \A dt \in DataTypes :
                         Listed(p, dt) =>
                            p \in Range(_get_available_providers(
                                           dt, provider_health', now'))]_vars

\* a provider with failure_threshold failures on record, all of them less
\* than the cooldown ago, is about to be invoked again
C26_Witness ==
    /\ pc = "try"
    /\ now < circuit_timeout
    /\ consecutive_failures[available[idx]] >= failure_threshold
    /\ provider_health[available[idx]].failure_count = 0
    /\ cache # <<>>

\* the call that starts in this step gets past its cache lookup
BuildsCandidateList ==
    /\ CallStarts
    /\ request'.func_name # "reset_provider_health"
    /\ ~LookupFinds(request', "fresh")

\* C30: the candidate list of a call holds every provider that is listed for
\* the data type, declares support for it and has no Open breaker, whatever
\* its own mirror says; and the step that records a failure for a provider
\* leaves that provider's mirror unhealthy with the recorded error as its
\* last_error.
C30_MirrorNotConsulted ==
    [][/\ BuildsCandidateList =>
            Range(available')
              = {p \in ProviderNames :
                   Listed(p, request'.data_type) /\ ~BreakerOpen(p)}
       /\ \A p \in ProviderNames :
             FailureRecordedFor(p) =>
                /\ ~mirror'[p].is_healthy
                /\ mirror'[p].last_error = last_error'
                /\ last_error'.provider = p]_vars

\* yahoo was invoked in this call with its mirror unhealthy from an earlier
\* recorded failure, and stooq, unhealthy since its construction without
\* pandas-datareader, is the next candidate
C30_Witness ==
    /\ pc = "try"
    /\ invoked = <<"yahoo">>
    /\ provider_health["yahoo"].total_requests >= 2
    /\ provider_health["yahoo"].successful_requests = 0
    /\ available[idx] = "stooq"
    /\ ~datareader
    /\ ~mirror["stooq"].is_healthy

\* C23 (as claimed, for a provider without a recorded success): when both
\* threads have finished their manager calls, total_requests and
\* failure_count of the provider equal the number of failures recorded for
\* it, and its breaker has been opened if that number reached
\* failure_threshold.
C23_NoLostUpdate ==
    \A p \in ProviderNames :
       /\ pc = "idle"
       /\ peer.pc = "idle"
       /\ provider_health[p].successful_requests = 0
       => /\ provider_health[p].total_requests = consecutive_failures[p]
          /\ provider_health[p].failure_count = consecutive_failures[p]
          /\ consecutive_failures[p] >= failure_threshold
                => provider_health[p].circuit_open_until # None

\* C27: warm_cache never ends in an error, and when it has returned the
\* price fetch has been made for every position of its ticker list,
\* whatever the manager calls before it ended with.
C27_WarmCacheNeverRaises ==
    /\ warm.stage # "raised"
    /\ warm.stage = "returned" => warm.attempted = DOMAIN warm.tickers

\* warm_cache has returned after the price fetch of its first ticker ended
\* in an error and a later fetch put an entry into the cache
C27_Witness ==
    /\ warm.stage = "returned"
    /\ Len(warm.tickers) = 2
    /\ warm.attempted = {1, 2}
    /\ CacheGetKey(WarmRequest(warm.tickers[1], "prices")) \notin DOMAIN cache
    /\ cache # <<>>

\* provider p stands before provider q in the priority list of data type dt
Earlier(p, q, dt) ==
    \E i, j \in DOMAIN provider_priorities[dt] :
        /\ i < j
        /\ provider_priorities[dt][i] = p
        /\ provider_priorities[dt][j] = q

\* C31: the cache ranks agree with the priority order, so that a store by a
\* provider placed later in the data type's priority list than the provider
\* of a Fresh entry leaves that entry as it was.
C31_HigherPriorityKept ==
    [][(/\ SetStep
        /\ cache_op'.key \in DOMAIN cache
        /\ AgeBelowFourFifths(cache[cache_op'.key])
        /\ Earlier(cache[cache_op'.key].provider, cache_op'.provider,
                   cache_op'.key[1]))
         => /\ _provider_scores(cache[cache_op'.key].provider)
                 > _provider_scores(cache_op'.provider)
            /\ cache' = cache]_vars

\* C32: a manager call terminates when every provider invocation returns or
\* raises; it invokes each candidate at most once, one invocation at a time,
\* and never more often than the data type's priority list has entries.
C32_CallTerminates ==
    /\ [](InCall =>
            /\ \A i, j \in DOMAIN invoked :
                  invoked[i] = invoked[j] => i = j
            /\ Range(invoked) \subseteq Range(available)
            /\ Len(invoked) <= Len(provider_priorities[request.data_type]))
    /\ [][InCall /\ pc' # "idle" => Len(invoked') <= Len(invoked) + 1]_vars
    /\ (pc = "try") ~> (pc = "done")

\* C32 witness: a call has ended after invoking every entry of the priority
\* list of prices, all of which failed
C32_Witness ==
    /\ pc = "done"
    /\ request.data_type = "prices"
    /\ Len(invoked) = Len(provider_priorities["prices"])
    /\ ret.kind = "raise"

\* C33: in every health record is_healthy is false exactly when
\* circuit_open_until is set, and the passing of time alone changes no
\* record, so an opened record stays unhealthy after its cooldown until it is
\* closed or reset.
C33_UnhealthyIffOpened ==
    /\ [](\A p \in ProviderNames :
            (~provider_health[p].is_healthy)
               <=> provider_health[p].circuit_open_until # None)
    /\ [][now' # now => provider_health' = provider_health]_vars

\* C33 witness: the cooldown of sec_edgar has elapsed, a success has been
\* recorded since, and its record is still unhealthy
C33_Witness ==
    /\ provider_health["sec_edgar"].circuit_open_until # None
    /\ now >= provider_health["sec_edgar"].circuit_open_until
    /\ ~provider_health["sec_edgar"].is_healthy
    /\ provider_health["sec_edgar"].successful_requests > 0


\* C34: a provider whose circuit_open_until is unset has fewer than
\* failure_threshold failures on record; failure_count reaches or exceeds
\* failure_threshold only while circuit_open_until is set.
C34_ThresholdOnlyWhileOpened ==
    \A p \in ProviderNames :
        provider_health[p].circuit_open_until = None
           => provider_health[p].failure_count < failure_threshold

\* C34 witness: sec_edgar's failure_count has gone beyond failure_threshold
\* after the cooldown elapsed, with circuit_open_until still set
C34_Witness ==
    /\ provider_health["sec_edgar"].failure_count > failure_threshold
    /\ provider_health["sec_edgar"].circuit_open_until # None
    /\ now >= provider_health["sec_edgar"].circuit_open_until

\* a provider call of the running manager call returns the empty payload
EmptyReturned == pc = "try" /\ pc' = "done" /\ result' = "empty"

\* C35: a provider that returns an empty result counts as a success: the
\* call returns the empty result tagged with that provider without trying a
\* later candidate, a success is recorded, and the result is in the cache so
\* that an identical call made while the entry is Fresh is served the empty
\* result from the cache without invoking a provider.
C35_EmptyIsSuccess ==
    [][/\ EmptyReturned =>
            LET p == available[idx]
            IN  /\ ret' = Returned(<<"empty", p>>)
                /\ invoked' = Append(invoked, p)
                /\ provider_health'[p].successful_requests
                     = provider_health[p].successful_requests + 1
                /\ provider_health'[p].total_requests
                     = provider_health[p].total_requests + 1
                /\ CacheGetResult(cache', CacheGetKey(request), now)
                     = <<"empty", p, "fresh">>
       /\ \A req \in Requests :
            (/\ CallStarts
             /\ request' = req
             /\ CacheGetResult(cache, CacheGetKey(req), now) # <<>>
             /\ CacheGetResult(cache, CacheGetKey(req), now)[1] = "empty"
             /\ CacheGetResult(cache, CacheGetKey(req), now)[3] = "fresh")
              => /\ pc' = "done"
                 /\ invoked' = <<>>
                 /\ ret' = Returned(
                      <<"empty",
                        CacheGetResult(cache, CacheGetKey(req), now)[2]>>)
                 /\ provider_health' = provider_health]_vars

\* the provider call of the running manager call raises NotFound
NotFoundRaised ==
    /\ pc = "try"
    /\ invoked' = Append(invoked, available[idx])
    /\ last_error' = [kind |-> "NotFound", provider |-> available[idx]]

\* C36: when every candidate raises NotFound and there is no stale entry the
\* manager call raises DataProviderError instead of returning an empty
\* result, and neither the start of the call nor any NotFound changes a
\* field of any provider's health record.
C36_NotFoundEverywhere ==
    [][/\ CallStarts => provider_health' = provider_health
       /\ NotFoundRaised =>
            /\ provider_health' = provider_health
            /\ idx < Len(available) => pc' = "try" /\ ret' = NoReturn
            /\ (idx = Len(available) /\ stale_data = <<>>) =>
                  /\ pc' = "done"
                  /\ ret' = Raised("All providers failed", last_error')
                  /\ ret'.kind = "raise"
                  /\ ret'.error = "DataProviderError"]_vars

\* C36 witness: a get_prices call has ended by raising after each of its
\* three candidates raised NotFound, and no attempt is on record
C36_Witness ==
    /\ pc = "done"
    /\ request.func_name = "get_prices"
    /\ invoked = <<"yahoo", "stooq", "financialdatasets">>
    /\ last_error.kind = "NotFound"
    /\ ret.kind = "raise"
    /\ TotalAttempts = 0
    /\ \A p \in ProviderNames : provider_health[p] = ProviderHealth

\* the running call has found a stale entry and no provider has succeeded
StaleInHand(data, held, counter) ==
    /\ counter \in {"try", "done"}
    /\ held # <<>>
    /\ data = NoResult

\* C37: a call that holds a stale entry and ends without a provider's
\* success returns the stale pair and leaves the cache (payload, provider and
\* timestamp of the entry) as it was, so the entry keeps ageing; a call
\* started once the entry's age has reached the TTL finds no entry, and
\* raises when all its providers fail.
C37_StaleEntryKeepsAgeing ==
    [][/\ StaleInHand(result', stale_data', pc') =>
            /\ cache' = cache
            /\ CacheGetKey(request') \in DOMAIN cache
            /\ cache[CacheGetKey(request')].data = stale_data'[1]
            /\ cache[CacheGetKey(request')].provider = stale_data'[2]
            /\ (pc # "done" /\ pc' = "done") => ret' = Returned(stale_data')
       /\ \A req \in PriceRequests :
            (/\ CallStarts
             /\ request' = req
             /\ CacheGetKey(req) \in DOMAIN cache
             /\ ~AgeBelowTTL(cache[CacheGetKey(req)]))
              => /\ stale_data' = <<>>
                 /\ CacheGetKey(req) \notin DOMAIN cache'
                 /\ ret'.kind # "return"
       /\ (pc = "try" /\ pc' = "done" /\ stale_data = <<>>
              /\ result' = NoResult)
            => ret' = Raised("All providers failed", last_error')]_vars

\* C37 witness: yahoo's prices were cached at time 0; after the stale entry
\* had been returned for a call in which yahoo and stooq failed, the call at
\* time 2 * TickStep, past the TTL, found no entry and raised when both
\* failed again
C37_Witness ==
    /\ pc = "done"
    /\ now = 2 * TickStep
    /\ now >= _ttl_config["prices"]
    /\ ret.kind = "raise"
    /\ cache = <<>>
    /\ provider_health["yahoo"].successful_requests = 1
    /\ provider_health["yahoo"].failure_count = 2
    /\ provider_health["stooq"].failure_count = 2

\* every HTTP attempt of the call that has ended was answered with 429
AllRateLimited ==
    /\ http.stage = "done"
    /\ http.responses # <<>>
    /\ \A i \in DOMAIN http.responses : http.responses[i] = 429

\* C38: _make_request makes at most max_retries + 1 HTTP attempts, and when
\* every attempt was answered with status 429 it has marked the provider
\* unhealthy and raises DataProviderRateLimitError, after max_retries
\* retries.
C38_RateLimitAfterRetries ==
    /\ Len(http.responses) <= max_retries + 1
    /\ AllRateLimited =>
          /\ Len(http.responses) = max_retries + 1
          /\ ~http.health.is_healthy
          /\ http.outcome.kind = "raise"
          /\ http.outcome.error = "DataProviderRateLimitError"
====
